---- MODULE Spec2Model ----
(***************************************************************************)
(* Storage value migration engine of cadence (package migrations):        *)
(* StorageMigration.Migrate drives an AddressIterator, runs the recursive *)
(* traversal migrateNestedValue over every stored value of each account,  *)
(* and commits once.  StaticTypeMigration is the concrete Migration that  *)
(* rewrites the static type embedded in type-shaped leaves.               *)
(*                                                                         *)
(* Values are modelled with reference semantics: containers live in a     *)
(* per-account heap and are named by Ref(id); a leaf is a value held      *)
(* directly in a container slot.  lid is a history label of a leaf slot   *)
(* (it survives the replacement of the leaf's content), used only to      *)
(* state properties about "the same leaf".                                 *)
(***************************************************************************)
EXTENDS Integers, Sequences, FiniteSets, TLC

\* ------------------------------------------------------------------ bounds
\* Abstract primitive leaf contents are the integers 0..MaxVal.
MaxVal == 1
\* Longest list of migrations handed to StorageMigration.Migrate.
MaxMigrations == 2
\* Largest number of array elements, composite fields and dictionary entries.
MaxLen == 2
\* Largest number of non-zero addresses the iterator yields.
MaxAddrs == 2
\* Largest number of interface types of an intersection type.
MaxInterfaces == 3
\* Largest number of entitlements given to an entitlement set.
MaxEntitlements == 2

\* ------------------------------------------------------------ static types
\* interpreter.StaticType / interpreter.Authorization as records.
NoType == [k |-> "nil"]

Unauthorized == [a |-> "Unauthorized"]

\* The insertion-ordered set that the ordered map builds from a list: a
\* repeated element keeps its first position.
RECURSIVE OrderedSet(_)
OrderedSet(list) ==
    IF list = <<>> THEN <<>>
    ELSE LET front == OrderedSet(SubSeq(list, 1, Len(list) - 1))
             last == list[Len(list)]
         IN  IF \E i \in 1..Len(front) : front[i] = last THEN front
             ELSE Append(front, last)

EntitlementSetAuthorization(ids, setKind) ==
    [a |-> "EntitlementSet", entitlements |-> OrderedSet(ids), setKind |-> setKind]

EntitlementMapAuthorization(id) == [a |-> "EntitlementMap", typeID |-> id]

\* Authorization.Equal comparing the entitlements in insertion order.
AuthorizationEqual_InOrder(e, auth) ==
    CASE e.a = "Unauthorized" -> auth.a = "Unauthorized"
      [] e.a = "EntitlementSet" ->
            IF auth.a = "EntitlementSet"
            THEN e.setKind = auth.setKind /\ e.entitlements = auth.entitlements
            ELSE FALSE
      [] e.a = "EntitlementMap" ->
            IF auth.a = "EntitlementMap" THEN e.typeID = auth.typeID ELSE FALSE

\* Authorization.Equal: e.Equal(auth)
AuthorizationEqual(e, auth) ==
    CASE e.a = "Unauthorized" -> auth.a = "Unauthorized"
      [] e.a = "EntitlementSet" ->
            IF auth.a = "EntitlementSet"
            THEN IF e.setKind # auth.setKind THEN FALSE
                 ELSE IF Len(auth.entitlements) # Len(e.entitlements) THEN FALSE
                 ELSE \A i \in 1..Len(auth.entitlements) :
                         \E j \in 1..Len(e.entitlements) :
                             e.entitlements[j] = auth.entitlements[i]
            ELSE FALSE
      [] e.a = "EntitlementMap" ->
            IF auth.a = "EntitlementMap" THEN e.typeID = auth.typeID ELSE FALSE

PrimitiveStaticType(p) == [k |-> "Primitive", p |-> p]

\* A nil common.Location.
NoLocation == ""

CompositeStaticType(location, qualifiedIdentifier, typeID) ==
    [k |-> "Composite", location |-> location,
     qualifiedIdentifier |-> qualifiedIdentifier, typeID |-> typeID]

InterfaceStaticType(location, qualifiedIdentifier) ==
    [k |-> "Interface", location |-> location,
     qualifiedIdentifier |-> qualifiedIdentifier]

\* The function type is an opaque signature.
FunctionStaticType(type) == [k |-> "Function", type |-> type]

\* ptr is the identity of the allocated *ReferenceStaticType: "new" for
\* every allocation but the two package variables below.  Equal does not
\* read it; a comparison of two references as Go values does.
ReferenceStaticType(auth, t) ==
    [k |-> "Reference", authorization |-> auth, referencedType |-> t,
     ptr |-> "new"]

OptionalStaticType(t) == [k |-> "Optional", type |-> t]

VariableSizedStaticType(t) == [k |-> "VariableSized", type |-> t]

ConstantSizedStaticType(t, n) == [k |-> "ConstantSized", type |-> t, size |-> n]

DictionaryStaticType(kt, vt) == [k |-> "Dictionary", keyType |-> kt, valueType |-> vt]

CapabilityStaticType(t) == [k |-> "Capability", borrowType |-> t]

\* NewIntersectionStaticType sets the interface types only; LegacyType is
\* nil until assigned.
IntersectionStaticType(types) ==
    [k |-> "Intersection", types |-> types, legacyType |-> NoType]

\* StaticType.Equal: t.Equal(other), for a non-nil receiver t; other may be
\* nil (NoType), which no type assertion accepts.
RECURSIVE Equal(_, _)
Equal(t, other) ==
    CASE t.k = "Composite" ->
            IF other.k # "Composite" THEN FALSE ELSE other.typeID = t.typeID
      [] t.k = "Interface" ->
            IF other.k # "Interface" THEN FALSE
            ELSE /\ other.location = t.location
                 /\ other.qualifiedIdentifier = t.qualifiedIdentifier
      [] t.k = "VariableSized" ->
            IF other.k # "VariableSized" THEN FALSE ELSE Equal(t.type, other.type)
      [] t.k = "ConstantSized" ->
            IF other.k # "ConstantSized" THEN FALSE
            ELSE t.size = other.size /\ Equal(t.type, other.type)
      [] t.k = "Dictionary" ->
            IF other.k # "Dictionary" THEN FALSE
            ELSE /\ Equal(t.keyType, other.keyType)
                 /\ Equal(t.valueType, other.valueType)
      [] t.k = "Optional" ->
            IF other.k # "Optional" THEN FALSE ELSE Equal(t.type, other.type)
      [] t.k = "Intersection" ->
            IF other.k # "Intersection" \/ Len(t.types) # Len(other.types)
            THEN FALSE
            ELSE \A i \in 1..Len(t.types) :
                    \E j \in 1..Len(other.types) :
                        Equal(t.types[i], other.types[j])
      [] t.k = "Reference" ->
            IF other.k # "Reference" THEN FALSE
            ELSE /\ AuthorizationEqual(t.authorization, other.authorization)
                 /\ Equal(t.referencedType, other.referencedType)
      [] t.k = "Capability" ->
            IF other.k # "Capability" THEN FALSE
            ELSE IF t.borrowType = NoType THEN other.borrowType = NoType
            ELSE Equal(t.borrowType, other.borrowType)
      [] t.k = "Function" ->
            IF other.k # "Function" THEN FALSE ELSE t.type = other.type
      [] t.k = "Primitive" ->
            IF other.k # "Primitive" THEN FALSE ELSE t.p = other.p

authAccountEntitlements ==
    <<"Storage", "Contracts", "Keys", "Inbox", "Capabilities">>

authAccountReferenceType ==
    [ReferenceStaticType(
         EntitlementSetAuthorization(authAccountEntitlements, "Conjunction"),
         PrimitiveStaticType("Account"))
     EXCEPT !.ptr = "authAccountReferenceType"]

unauthorizedAccountReferenceType ==
    [ReferenceStaticType(Unauthorized, PrimitiveStaticType("Account"))
     EXCEPT !.ptr = "unauthorizedAccountReferenceType"]

\* interpreter.AccountKeyStaticType: the composite type AccountKey.
AccountKeyStaticType == CompositeStaticType(NoLocation, "AccountKey", "AccountKey")

\* Mutant: AuthAccount is converted like PublicAccount, to the unauthorized
\* reference.
ConvertPrimitive_AuthAsPublic(p) ==
    IF p \in {"PublicAccount", "AuthAccount"} THEN unauthorizedAccountReferenceType
    ELSE NoType

\* The table with PublicAccountKeys sent to Account_Contracts.
ConvertPrimitive_PublicKeysAsContracts(p) ==
    CASE p = "PublicAccount" -> unauthorizedAccountReferenceType
      [] p = "AuthAccount" -> authAccountReferenceType
      [] p \in {"AuthAccountCapabilities", "PublicAccountCapabilities"} ->
            PrimitiveStaticType("Account_Capabilities")
      [] p = "AuthAccountAccountCapabilities" ->
            PrimitiveStaticType("Account_AccountCapabilities")
      [] p = "AuthAccountStorageCapabilities" ->
            PrimitiveStaticType("Account_StorageCapabilities")
      [] p \in {"AuthAccountContracts", "PublicAccountContracts",
                "PublicAccountKeys"} ->
            PrimitiveStaticType("Account_Contracts")
      [] p = "AuthAccountKeys" -> PrimitiveStaticType("Account_Keys")
      [] p = "AuthAccountInbox" -> PrimitiveStaticType("Account_Inbox")
      [] p = "AccountKey" -> AccountKeyStaticType
      [] OTHER -> NoType

\* The inner switch of maybeConvertStaticType over the primitive kinds.
ConvertPrimitive(p) ==
    CASE p = "PublicAccount" -> unauthorizedAccountReferenceType
      [] p = "AuthAccount" -> authAccountReferenceType
      [] p \in {"AuthAccountCapabilities", "PublicAccountCapabilities"} ->
            PrimitiveStaticType("Account_Capabilities")
      [] p = "AuthAccountAccountCapabilities" ->
            PrimitiveStaticType("Account_AccountCapabilities")
      [] p = "AuthAccountStorageCapabilities" ->
            PrimitiveStaticType("Account_StorageCapabilities")
      [] p \in {"AuthAccountContracts", "PublicAccountContracts"} ->
            PrimitiveStaticType("Account_Contracts")
      [] p \in {"AuthAccountKeys", "PublicAccountKeys"} ->
            PrimitiveStaticType("Account_Keys")
      [] p = "AuthAccountInbox" -> PrimitiveStaticType("Account_Inbox")
      [] p = "AccountKey" -> AccountKeyStaticType
      [] OTHER -> NoType

\* A panic raised inside the conversion, propagated to the caller.
PanicType == [k |-> "panic"]

\* A CompositeTypeConverterFunc / InterfaceTypeConverterFunc: nil, or a
\* function of the type it is given (fn, NoType where it returns nil).
NoConverter == [configured |-> FALSE, fn |-> <<>>]

Converter(fn) == [configured |-> TRUE, fn |-> fn]

CallConverter(converter, staticType) ==
    IF staticType \in DOMAIN converter.fn THEN converter.fn[staticType]
    ELSE NoType

RECURSIVE maybeConvertStaticType(_, _)
RECURSIVE ConvertInterfaceTypes(_, _, _, _)

\* case *interpreter.ConstantSizedStaticType
ConvertConstantSized(m, staticType) ==
    LET convertedType == maybeConvertStaticType(m, staticType.type)
    IN  IF convertedType = PanicType THEN PanicType
        ELSE IF convertedType # NoType
             THEN ConstantSizedStaticType(convertedType, staticType.size)
             ELSE NoType

\* case *interpreter.VariableSizedStaticType
ConvertVariableSized(m, staticType) ==
    LET convertedType == maybeConvertStaticType(m, staticType.type)
    IN  IF convertedType = PanicType THEN PanicType
        ELSE IF convertedType # NoType THEN VariableSizedStaticType(convertedType)
        ELSE NoType

\* case *interpreter.DictionaryStaticType
ConvertDictionary(m, staticType) ==
    LET convertedKeyType == maybeConvertStaticType(m, staticType.keyType)
        convertedValueType ==
            IF convertedKeyType = PanicType THEN PanicType
            ELSE maybeConvertStaticType(m, staticType.valueType)
    IN  IF convertedKeyType = PanicType \/ convertedValueType = PanicType
        THEN PanicType
        ELSE IF convertedKeyType # NoType /\ convertedValueType # NoType
             THEN DictionaryStaticType(convertedKeyType, convertedValueType)
        ELSE IF convertedKeyType # NoType
             THEN DictionaryStaticType(convertedKeyType, staticType.valueType)
        ELSE IF convertedValueType # NoType
             THEN DictionaryStaticType(staticType.keyType, convertedValueType)
        ELSE NoType

\* case *interpreter.CapabilityStaticType
ConvertCapability(m, staticType) ==
    LET convertedBorrowType == maybeConvertStaticType(m, staticType.borrowType)
    IN  IF convertedBorrowType = PanicType THEN PanicType
        ELSE IF convertedBorrowType # NoType
             THEN CapabilityStaticType(convertedBorrowType)
             ELSE NoType

\* The iteration that keeps the original interface type when the
\* replacement is not an interface type.
ConvertInterfaceType_KeepsOriginal(w, interfaceStaticType, convertedType) ==
    IF convertedType = PanicType THEN [w EXCEPT !.panicked = TRUE]
    ELSE IF convertedType # NoType /\ convertedType.k = "Interface"
         THEN [types |-> Append(w.types, convertedType),
               converted |-> TRUE, panicked |-> FALSE]
         ELSE [w EXCEPT !.types = Append(@, interfaceStaticType)]

\* One iteration of the loop over staticType.Types, on
\* w = [types (convertedInterfaceTypes), converted (convertedInterfaceType),
\* panicked], for the member interfaceStaticType and its conversion.
ConvertInterfaceType(w, interfaceStaticType, convertedType) ==
    IF convertedType = PanicType THEN [w EXCEPT !.panicked = TRUE]
    ELSE IF convertedType # NoType
         THEN IF convertedType.k # "Interface"
              THEN [w EXCEPT !.panicked = TRUE]
              ELSE [types |-> Append(w.types, convertedType),
                    converted |-> TRUE, panicked |-> FALSE]
         ELSE [w EXCEPT !.types = Append(@, interfaceStaticType)]

ConvertInterfaceTypes(m, types, i, w) ==
    IF i > Len(types) \/ w.panicked THEN w
    ELSE ConvertInterfaceTypes(
             m, types, i + 1,
             ConvertInterfaceType(w, types[i],
                                  maybeConvertStaticType(m, types[i])))

\* RebuildIntersection with the rebuild forced for one interface type
\* already.
RebuildIntersection_ForcesOne(staticType, w, convertedLegacyType) ==
    IF w.panicked \/ convertedLegacyType = PanicType THEN PanicType
    ELSE IF \/ Len(staticType.types) >= 1
            \/ w.converted
            \/ convertedLegacyType # NoType
         THEN [IntersectionStaticType(w.types) EXCEPT !.legacyType =
                  IF convertedLegacyType # NoType THEN convertedLegacyType
                  ELSE staticType.legacyType]
         ELSE NoType

\* RebuildIntersection without the forced rebuild: only when an interface
\* type or the legacy type was converted.
RebuildIntersection_OnlyChanged(staticType, w, convertedLegacyType) ==
    IF w.panicked \/ convertedLegacyType = PanicType THEN PanicType
    ELSE IF w.converted \/ convertedLegacyType # NoType
         THEN [IntersectionStaticType(w.types) EXCEPT !.legacyType =
                  IF convertedLegacyType # NoType THEN convertedLegacyType
                  ELSE staticType.legacyType]
         ELSE NoType

\* The end of the intersection case, after the loop ended with w and the
\* legacy type was converted to convertedLegacyType.
RebuildIntersection(staticType, w, convertedLegacyType) ==
    IF w.panicked \/ convertedLegacyType = PanicType THEN PanicType
    ELSE IF \/ Len(staticType.types) >= 2
            \/ w.converted
            \/ convertedLegacyType # NoType
         THEN [IntersectionStaticType(w.types) EXCEPT !.legacyType =
                  IF convertedLegacyType # NoType THEN convertedLegacyType
                  ELSE staticType.legacyType]
         ELSE NoType

\* The conversion of the legacy type, if there is one and the loop over
\* the interface types ended without a panic.
ConvertLegacyType(m, staticType, w) ==
    IF w.panicked \/ staticType.legacyType = NoType THEN NoType
    ELSE maybeConvertStaticType(m, staticType.legacyType)

\* The intersection case after the loop over the interface types ended
\* with w.
ConvertIntersectionAfterLoop(m, staticType, w) ==
    RebuildIntersection(staticType, w, ConvertLegacyType(m, staticType, w))

\* case *interpreter.IntersectionStaticType
ConvertIntersection(m, staticType) ==
    ConvertIntersectionAfterLoop(
        m, staticType,
        ConvertInterfaceTypes(m, staticType.types, 1,
            [types |-> <<>>, converted |-> FALSE, panicked |-> FALSE]))

\* case *interpreter.OptionalStaticType
ConvertOptional(m, staticType) ==
    LET convertedInnerType == maybeConvertStaticType(m, staticType.type)
    IN  IF convertedInnerType = PanicType THEN PanicType
        ELSE IF convertedInnerType # NoType
             THEN OptionalStaticType(convertedInnerType)
             ELSE NoType

\* The reference case without the inner switch: the converted type is
\* always wrapped in a reference.
ConvertReference_NoCollapse(m, staticType) ==
    LET convertedReferencedType ==
            maybeConvertStaticType(m, staticType.referencedType)
    IN  IF convertedReferencedType = PanicType THEN PanicType
        ELSE IF convertedReferencedType # NoType
             THEN ReferenceStaticType(staticType.authorization,
                                      convertedReferencedType)
             ELSE NoType

\* case *interpreter.ReferenceStaticType.  The inner switch compares the
\* converted type with the two package variables as Go values, that is by
\* pointer.
ConvertReference(m, staticType) ==
    LET convertedReferencedType ==
            maybeConvertStaticType(m, staticType.referencedType)
    IN  IF convertedReferencedType = PanicType THEN PanicType
        ELSE IF convertedReferencedType # NoType
             THEN IF convertedReferencedType \in
                        {authAccountReferenceType,
                         unauthorizedAccountReferenceType}
                  THEN convertedReferencedType
                  ELSE ReferenceStaticType(staticType.authorization,
                                           convertedReferencedType)
             ELSE NoType

\* case *interpreter.CompositeStaticType
ConvertComposite(m, staticType) ==
    IF m.compositeTypeConverter.configured
    THEN CallConverter(m.compositeTypeConverter, staticType)
    ELSE NoType

\* case *interpreter.InterfaceStaticType
ConvertInterface(m, staticType) ==
    IF m.interfaceTypeConverter.configured
    THEN CallConverter(m.interfaceTypeConverter, staticType)
    ELSE NoType

\* StaticTypeMigration.maybeConvertStaticType, for the migration m (its
\* two converters).  NoType is the nil static type: as an argument it
\* matches no case of the type switch and reaches the default branch.
maybeConvertStaticType(m, staticType) ==
    CASE staticType.k = "ConstantSized" -> ConvertConstantSized(m, staticType)
      [] staticType.k = "VariableSized" -> ConvertVariableSized(m, staticType)
      [] staticType.k = "Dictionary" -> ConvertDictionary(m, staticType)
      [] staticType.k = "Capability" -> ConvertCapability(m, staticType)
      [] staticType.k = "Intersection" -> ConvertIntersection(m, staticType)
      [] staticType.k = "Optional" -> ConvertOptional(m, staticType)
      [] staticType.k = "Reference" -> ConvertReference(m, staticType)
      [] staticType.k = "Function" -> NoType
      [] staticType.k = "Composite" -> ConvertComposite(m, staticType)
      [] staticType.k = "Interface" -> ConvertInterface(m, staticType)
      [] staticType.k = "Primitive" -> ConvertPrimitive(staticType.p)
      [] OTHER -> PanicType

\* ------------------------------------------------------------------ values
\* interpreter.Value.  Nil is the Go nil value; a leaf is held directly, a
\* container (and an optional's SomeValue) is a heap object named by Ref.
Nil == [kind |-> "nil"]

Leaf(l, v) == [kind |-> "leaf", lid |-> l, val |-> v]

Ref(i) == [kind |-> "ref", id |-> i]

\* Contents of leaves: an abstract primitive value, or a TypeValue.
IntValue(n) == [vk |-> "Int", n |-> n]

TypeValue(t) == [vk |-> "TypeValue", type |-> t]

\* The values other than TypeValue that hold a static type.
CapabilityValue(id, address, borrowType) ==
    [vk |-> "Capability", id |-> id, address |-> address,
     borrowType |-> borrowType]

PathCapabilityValue(borrowType, path, address) ==
    [vk |-> "PathCapability", borrowType |-> borrowType, path |-> path,
     address |-> address]

PathLinkValue(type, targetPath) ==
    [vk |-> "PathLink", type |-> type, targetPath |-> targetPath]

AccountCapabilityControllerValue(borrowType, capabilityID) ==
    [vk |-> "AccountCapabilityController", borrowType |-> borrowType,
     capabilityID |-> capabilityID]

StorageCapabilityControllerValue(borrowType, capabilityID, targetPath) ==
    [vk |-> "StorageCapabilityController", borrowType |-> borrowType,
     capabilityID |-> capabilityID, targetPath |-> targetPath]

\* A leaf of a kind none of the modelled migrations acts on.
OtherValue == [vk |-> "Other"]

SomeValue(v) == [kind |-> "some", inner |-> v]

ArrayValue(elems) == [kind |-> "array", elems |-> elems]

\* fields: sequence of [name, value], in ForEachField order.
CompositeValue(fields) == [kind |-> "composite", fields |-> fields]

\* entries: sequence of [key, value], in Iterate order; keys are compared by
\* content.
DictionaryValue(entries) == [kind |-> "dictionary", entries |-> entries]

\* interpreter.NewSomeValueNonCopying: allocates a SomeValue.
NewSomeValueNonCopying(st, v) ==
    [st |-> [st EXCEPT !.heap = Append(@, SomeValue(v))],
     ref |-> Ref(Len(st.heap) + 1)]

\* ArrayValue.Set(index, element): in-place replacement of one element.
ArraySet(st, id, index, element) ==
    [st EXCEPT !.heap[id].elems[index] = element,
               !.log = Append(@, [e |-> "ArraySet", id |-> id, index |-> index,
                                  value |-> element])]

FieldIndex(obj, fieldName) ==
    LET hits == {i \in 1..Len(obj.fields) : obj.fields[i].name = fieldName}
    IN  IF hits = {} THEN 0 ELSE CHOOSE i \in hits : TRUE

\* CompositeValue.GetField: nil when the field is absent.
GetField(obj, fieldName) ==
    LET i == FieldIndex(obj, fieldName)
    IN  IF i = 0 THEN Nil ELSE obj.fields[i].value

\* CompositeValue.SetMember: replaces the field, or adds it when absent.
SetMember(st, id, fieldName, v) ==
    LET obj == st.heap[id]
        i == FieldIndex(obj, fieldName)
        fields == IF i = 0
                  THEN Append(obj.fields, [name |-> fieldName, value |-> v])
                  ELSE [obj.fields EXCEPT ![i].value = v]
    IN  [st EXCEPT !.heap[id].fields = fields,
                   !.log = Append(@, [e |-> "SetMember", id |-> id,
                                      name |-> fieldName, value |-> v])]

\* Position of the entry whose key equals key (by content), 0 if absent.
DictIndex(obj, key) ==
    LET hits == {i \in 1..Len(obj.entries) : obj.entries[i].key.val = key.val}
    IN  IF hits = {} THEN 0 ELSE CHOOSE i \in hits : TRUE

SeqWithout(s, i) == [j \in 1..(Len(s) - 1) |-> IF j < i THEN s[j] ELSE s[j + 1]]

\* DictionaryValue.RemoveKey: removes the entry under key, if any.
RemoveKey(st, id, key) ==
    LET obj == st.heap[id]
        i == DictIndex(obj, key)
        entries == IF i = 0 THEN obj.entries ELSE SeqWithout(obj.entries, i)
    IN  [st EXCEPT !.heap[id].entries = entries,
                   !.log = Append(@, [e |-> "RemoveKey", id |-> id,
                                      key |-> key.val])]

\* DictionaryValue.SetKey(key, some): the optional's inner value is stored
\* under key; an existing entry keeps its key and gets the new value.
SetKey(st, id, key, some) ==
    LET obj == st.heap[id]
        v == st.heap[some.id].inner
        i == DictIndex(obj, key)
        entries == IF i = 0
                   THEN Append(obj.entries, [key |-> key, value |-> v])
                   ELSE [obj.entries EXCEPT ![i].value = v]
    IN  [st EXCEPT !.heap[id].entries = entries,
                   !.log = Append(@, [e |-> "SetKey", id |-> id, key |-> key.val,
                                      some |-> some.id, value |-> v])]

\* -------------------------------------------------------------- migrations
\* Result of one Migration.Migrate call: no replacement, a replacement, an
\* error, or a panic.
NoReplacement == [o |-> "nil"]

Replacement(v) == [o |-> "value", val |-> v]

MigrateError == [o |-> "err"]

MigratePanic == [o |-> "panic"]

\* The arm of StaticTypeMigration.Migrate for a value that holds one static
\* type: nil when the type converts to nil, else rebuilt, the value with the
\* converted type.
MigrateTypeOf(convertedType, rebuilt) ==
    IF convertedType = PanicType THEN MigratePanic
    ELSE IF convertedType = NoType THEN NoReplacement
    ELSE Replacement(rebuilt)

\* The arm for a capability controller without the type assertion.
MigrateControllerOf_Unasserted(convertedBorrowType, rebuilt) ==
    IF convertedBorrowType = PanicType THEN MigratePanic
    ELSE IF convertedBorrowType = NoType THEN NoReplacement
    ELSE Replacement(rebuilt)

\* The arm for a capability controller: the converted borrow type is
\* asserted to be a *ReferenceStaticType, and the assertion panics when it
\* is not.
MigrateControllerOf(convertedBorrowType, rebuilt) ==
    IF convertedBorrowType = PanicType THEN MigratePanic
    ELSE IF convertedBorrowType = NoType THEN NoReplacement
    ELSE IF convertedBorrowType.k # "Reference" THEN MigratePanic
    ELSE Replacement(rebuilt)

\* The static type that a value of one of the kinds Migrate acts on holds:
\* value.Type or value.BorrowType.
HeldType(val) ==
    IF val.vk \in {"TypeValue", "PathLink"} THEN val.type ELSE val.borrowType

\* The arms of Migrate with the capability rebuilt without its ID.
MigrateConverted_DropsID(val, convertedType) ==
    CASE val.vk = "TypeValue" ->
            MigrateTypeOf(convertedType, TypeValue(convertedType))
      [] val.vk = "Capability" ->
            MigrateTypeOf(convertedType,
                          CapabilityValue(0, val.address, convertedType))
      [] val.vk = "PathCapability" ->
            MigrateTypeOf(convertedType,
                          PathCapabilityValue(convertedType, val.path,
                                              val.address))
      [] val.vk = "PathLink" ->
            MigrateTypeOf(convertedType,
                          PathLinkValue(convertedType, val.targetPath))
      [] val.vk = "AccountCapabilityController" ->
            MigrateControllerOf(
                convertedType,
                AccountCapabilityControllerValue(convertedType,
                                                 val.capabilityID))
      [] val.vk = "StorageCapabilityController" ->
            MigrateControllerOf(
                convertedType,
                StorageCapabilityControllerValue(convertedType,
                                                 val.capabilityID,
                                                 val.targetPath))

\* What the arm of Migrate for val returns once the held type has been
\* converted to convertedType.
MigrateConverted(val, convertedType) ==
    CASE val.vk = "TypeValue" ->
            MigrateTypeOf(convertedType, TypeValue(convertedType))
      [] val.vk = "Capability" ->
            MigrateTypeOf(convertedType,
                          CapabilityValue(val.id, val.address, convertedType))
      [] val.vk = "PathCapability" ->
            MigrateTypeOf(convertedType,
                          PathCapabilityValue(convertedType, val.path,
                                              val.address))
      [] val.vk = "PathLink" ->
            MigrateTypeOf(convertedType,
                          PathLinkValue(convertedType, val.targetPath))
      [] val.vk = "AccountCapabilityController" ->
            MigrateControllerOf(
                convertedType,
                AccountCapabilityControllerValue(convertedType,
                                                 val.capabilityID))
      [] val.vk = "StorageCapabilityController" ->
            MigrateControllerOf(
                convertedType,
                StorageCapabilityControllerValue(convertedType,
                                                 val.capabilityID,
                                                 val.targetPath))

\* StaticTypeMigration.Migrate on the content of a leaf, for the migration
\* m (its two converters): a value of any other kind gets no replacement.
StaticTypeMigrate(m, val) ==
    IF val.vk \in {"TypeValue", "Capability", "PathCapability", "PathLink",
                   "AccountCapabilityController", "StorageCapabilityController"}
    THEN MigrateConverted(val, maybeConvertStaticType(m, HeldType(val)))
    ELSE NoReplacement

\* NewStaticTypeMigration(): no converter configured.
StaticTypeMigration ==
    [name |-> "StaticTypeMigration", static |-> TRUE, fn |-> <<>>,
     compositeTypeConverter |-> NoConverter,
     interfaceTypeConverter |-> NoConverter]

WithCompositeTypeConverter(m, converterFunc) ==
    [m EXCEPT !.compositeTypeConverter = converterFunc]

WithInterfaceTypeConverter(m, converterFunc) ==
    [m EXCEPT !.interfaceTypeConverter = converterFunc]

\* Any other implementation of the Migration interface: a function of the
\* content of the leaf, acting on the abstract primitive values only.
FnMigration(name, fn) == [name |-> name, static |-> FALSE, fn |-> fn]

\* A migration that, besides returning what fn gives, reaches the stored
\* dictionaries through a reference of its own and removes the entry of the
\* key with content removes from each of them whenever it is called.
InterferingMigration(name, fn, removes) ==
    [name |-> name, static |-> FALSE, fn |-> fn, removes |-> removes]

\* The side effect of calling migration.Migrate on the heap.
Interfere(migration, st) ==
    IF "removes" \notin DOMAIN migration THEN st
    ELSE [st EXCEPT !.heap =
            [id \in DOMAIN st.heap |->
                IF st.heap[id].kind # "dictionary" THEN st.heap[id]
                ELSE [st.heap[id] EXCEPT !.entries =
                        SelectSeq(@, LAMBDA en :
                                        en.key.val # IntValue(migration.removes))]]]

\* migration.Migrate(address, value)
Migrate(migration, val) ==
    IF migration.static THEN StaticTypeMigrate(migration, val)
    ELSE IF val.vk = "Int" THEN migration.fn[val.n]
    ELSE NoReplacement

\* --------------------------------------------------------------- traversal
\* The traversal threads st = [heap, log, panicked]: the account's heap, the
\* observable events so far (Migrate calls, reporter notifications, container
\* writes) and whether a panic is unwinding.  ctx is the fixed part of the
\* arguments: address, domain, key, migrations, reporter (FALSE: nil).

MigrateCall(i, migration, value, out) ==
    [e |-> "Migrate", m |-> i, migration |-> migration.name,
     lid |-> value.lid, val |-> value.val, out |-> out]

\* reporter.Report(address, domain, key, migration.Name()), if reporter != nil
ReportMigrated(st, ctx, migration) ==
    IF ctx.reporter
    THEN [st EXCEPT !.log = Append(@, [e |-> "Migrated",
                                       address |-> ctx.address,
                                       domain |-> ctx.domain,
                                       key |-> ctx.key,
                                       migration |-> migration.name])]
    ELSE st

\* reporter.Error(storageKey, storageMapKey, migration, err), if reporter != nil
ReportError(st, ctx, migration) ==
    IF ctx.reporter
    THEN [st EXCEPT !.log = Append(@, [e |-> "Error",
                                       address |-> ctx.address,
                                       domain |-> ctx.domain,
                                       key |-> ctx.key,
                                       migration |-> migration.name])]
    ELSE st

\* Mutant: the error of a migration aborts the run.
MigrateLeafError_Aborts(w, called, ctx, migration) ==
    [w EXCEPT !.st = [ReportError(called, ctx, migration) EXCEPT !.panicked = TRUE]]

\* A migration returned an error for the leaf: the error is reported and the
\* loop goes on with the next migration, w = [value, newValue, st] otherwise
\* unchanged.
MigrateLeafError(w, called, ctx, migration) ==
    [w EXCEPT !.st = ReportError(called, ctx, migration)]

\* Mutant: the working value is not updated, every migration is given the
\* original leaf.
ChainValue_NotChained(value, converted) == value

\* The working value after a migration returned converted: value = converted.
ChainValue(value, converted) == converted

\* Mutant: the notification is sent for every call, outside the test of the
\* result.
MigrateLeafStep_ReportsEveryCall(w, i, ctx) ==
    LET migration == ctx.migrations[i]
        out == Migrate(migration, w.value.val)
        called == [w.st EXCEPT !.log = Append(@, MigrateCall(i, migration,
                                                             w.value, out))]
        reported == ReportMigrated(called, ctx, migration)
    IN  CASE out.o = "panic" ->
                [w EXCEPT !.st = [called EXCEPT !.panicked = TRUE]]
          [] out.o = "err" -> MigrateLeafError(w, called, ctx, migration)
          [] out.o = "value" ->
                LET converted == Leaf(w.value.lid, out.val)
                IN  [value |-> ChainValue(w.value, converted),
                     newValue |-> converted,
                     st |-> reported]
          [] OTHER -> [w EXCEPT !.st = reported]

\* MigrateLeafStep with the replacement taken only when there is a reporter.
MigrateLeafStep_NeedsReporter(w, i, ctx) ==
    LET migration == ctx.migrations[i]
        out == Migrate(migration, w.value.val)
        called == [w.st EXCEPT !.log = Append(@, MigrateCall(i, migration,
                                                             w.value, out))]
    IN  CASE out.o = "panic" ->
                [w EXCEPT !.st = [called EXCEPT !.panicked = TRUE]]
          [] out.o = "err" -> MigrateLeafError(w, called, ctx, migration)
          [] out.o = "value" /\ ctx.reporter ->
                LET converted == Leaf(w.value.lid, out.val)
                IN  [value |-> ChainValue(w.value, converted),
                     newValue |-> converted,
                     st |-> ReportMigrated(called, ctx, migration)]
          [] OTHER -> [w EXCEPT !.st = called]

\* One iteration of the loop over the migrations, on w = [value, newValue, st].
MigrateLeafStep(w, i, ctx) ==
    LET migration == ctx.migrations[i]
        out == Migrate(migration, w.value.val)
        called == [Interfere(migration, w.st) EXCEPT
                      !.log = Append(@, MigrateCall(i, migration,
                                                    w.value, out))]
    IN  CASE out.o = "panic" ->
                [w EXCEPT !.st = [called EXCEPT !.panicked = TRUE]]
          [] out.o = "err" -> MigrateLeafError(w, called, ctx, migration)
          [] out.o = "value" ->
                LET converted == Leaf(w.value.lid, out.val)
                IN  [value |-> ChainValue(w.value, converted),
                     newValue |-> converted,
                     st |-> ReportMigrated(called, ctx, migration)]
          [] OTHER -> [w EXCEPT !.st = called]

RECURSIVE MigrateLeafLoop(_, _, _)
MigrateLeafLoop(w, i, ctx) ==
    IF i > Len(ctx.migrations) \/ w.st.panicked THEN w
    ELSE MigrateLeafLoop(MigrateLeafStep(w, i, ctx), i + 1, ctx)

\* The default case: every migration is offered the leaf, in order.
MigrateLeaf(value, ctx, st) ==
    LET w == MigrateLeafLoop([value |-> value, newValue |-> Nil, st |-> st],
                             1, ctx)
    IN  [st |-> w.st, ret |-> IF w.st.panicked THEN Nil ELSE w.newValue]

\* The write-back that does not remove the entry under the old key.
SetMigratedEntry_NoRemove(st, id, existingKey, existingValue, newKey, newValue) ==
    LET keyToSet == IF newKey = Nil THEN existingKey ELSE newKey
        valueToSet == IF newValue = Nil THEN existingValue ELSE newValue
        some == NewSomeValueNonCopying(st, valueToSet)
    IN  SetKey(some.st, id, keyToSet, some.ref)

\* Mutant: the key is removed after the insertion, and it is the new key
\* that is removed.
SetMigratedEntry_RemovesNewKey(st, id, existingKey, existingValue, newKey, newValue) ==
    LET keyToSet == IF newKey = Nil THEN existingKey ELSE newKey
        valueToSet == IF newValue = Nil THEN existingValue ELSE newValue
        some == NewSomeValueNonCopying(st, valueToSet)
        set == SetKey(some.st, id, keyToSet, some.ref)
    IN  IF newKey = Nil THEN set ELSE RemoveKey(set, id, newKey)

\* The write-back of one dictionary entry of which the key or the value was
\* migrated.
SetMigratedEntry(st, id, existingKey, existingValue, newKey, newValue) ==
    LET removed == IF newKey = Nil THEN st ELSE RemoveKey(st, id, existingKey)
        keyToSet == IF newKey = Nil THEN existingKey ELSE newKey
        valueToSet == IF newValue = Nil THEN existingValue ELSE newValue
        some == NewSomeValueNonCopying(removed, valueToSet)
    IN  SetKey(some.st, id, keyToSet, some.ref)

RECURSIVE migrateNestedValue(_, _, _)
RECURSIVE MigrateArrayElements(_, _, _, _, _)
RECURSIVE MigrateCompositeFields(_, _, _, _, _)
RECURSIVE MigrateDictionaryEntries(_, _, _, _, _)

\* Mutant: the optional is re-wrapped whether or not its inner value changed.
MigrateSome_AlwaysRewraps(id, ctx, st) ==
    LET inner == migrateNestedValue(st.heap[id].inner, ctx, st)
    IN  IF inner.st.panicked
        THEN [st |-> inner.st, ret |-> Nil]
        ELSE LET some == NewSomeValueNonCopying(
                             inner.st,
                             IF inner.ret = Nil THEN st.heap[id].inner
                             ELSE inner.ret)
             IN  [st |-> some.st, ret |-> some.ref]

\* case *interpreter.SomeValue
MigrateSome(id, ctx, st) ==
    LET inner == migrateNestedValue(st.heap[id].inner, ctx, st)
    IN  IF inner.st.panicked \/ inner.ret = Nil
        THEN [st |-> inner.st, ret |-> Nil]
        ELSE LET some == NewSomeValueNonCopying(inner.st, inner.ret)
             IN  [st |-> some.st, ret |-> some.ref]

\* The loop over the indices of an array, from index up to the count read
\* before the loop.
MigrateArrayElements(id, index, count, ctx, st) ==
    IF index > count \/ st.panicked THEN st
    ELSE LET element == st.heap[id].elems[index]
             r == migrateNestedValue(element, ctx, st)
             written == IF r.st.panicked \/ r.ret = Nil THEN r.st
                        ELSE ArraySet(r.st, id, index, r.ret)
         IN  MigrateArrayElements(id, index + 1, count, ctx, written)

\* The loop over the field names read before the loop.
MigrateCompositeFields(id, fieldNames, i, ctx, st) ==
    IF i > Len(fieldNames) \/ st.panicked THEN st
    ELSE LET existingValue == GetField(st.heap[id], fieldNames[i])
             r == migrateNestedValue(existingValue, ctx, st)
             written == IF r.st.panicked \/ r.ret = Nil THEN r.st
                        ELSE SetMember(r.st, id, fieldNames[i], r.ret)
         IN  MigrateCompositeFields(id, fieldNames, i + 1, ctx, written)

\* The snapshotted key is no longer in the dictionary: the loop drops the
\* key and goes on.
AbsentKey_Skipped(st) == st

\* dictionary.Get found no entry for a snapshotted key:
\* panic(errors.NewUnreachableError()).
AbsentKey(st) == [st EXCEPT !.panicked = TRUE]

\* dictionary.Get(existingKey), its result exist kept in the log.
DictionaryGet(st, id, existingKey, exist) ==
    [st EXCEPT !.log = Append(@, [e |-> "Get", id |-> id,
                                  key |-> existingKey.val,
                                  exist |-> exist])]

\* The loop over the keys read before the loop.
MigrateDictionaryEntries(id, existingKeys, i, ctx, st) ==
    IF i > Len(existingKeys) \/ st.panicked THEN st
    ELSE LET existingKey == existingKeys[i]
             at == DictIndex(st.heap[id], existingKey)
         IN  IF at = 0
             THEN AbsentKey(DictionaryGet(st, id, existingKey, FALSE))
             ELSE LET existingValue == st.heap[id].entries[at].value
                      k == migrateNestedValue(
                               existingKey, ctx,
                               DictionaryGet(st, id, existingKey, TRUE))
                      v == migrateNestedValue(existingValue, ctx, k.st)
                      written ==
                          IF v.st.panicked \/ (k.ret = Nil /\ v.ret = Nil)
                          THEN v.st
                          ELSE SetMigratedEntry(v.st, id, existingKey,
                                                existingValue, k.ret, v.ret)
                  IN  MigrateDictionaryEntries(id, existingKeys, i + 1, ctx,
                                               written)

\* StorageMigration.migrateNestedValue: ret is the replacement of value for
\* the enclosing container, Nil when value is not to be replaced.
migrateNestedValue(value, ctx, st) ==
    IF st.panicked THEN [st |-> st, ret |-> Nil]
    ELSE IF value.kind # "ref" THEN MigrateLeaf(value, ctx, st)
    ELSE LET obj == st.heap[value.id]
         IN  CASE obj.kind = "some" -> MigrateSome(value.id, ctx, st)
               [] obj.kind = "array" ->
                    [st |-> MigrateArrayElements(value.id, 1, Len(obj.elems),
                                                 ctx, st),
                     ret |-> Nil]
               [] obj.kind = "composite" ->
                    [st |-> MigrateCompositeFields(
                                value.id,
                                [j \in 1..Len(obj.fields) |-> obj.fields[j].name],
                                1, ctx, st),
                     ret |-> Nil]
               [] obj.kind = "dictionary" ->
                    [st |-> MigrateDictionaryEntries(
                                value.id,
                                [j \in 1..Len(obj.entries) |-> obj.entries[j].key],
                                1, ctx, st),
                     ret |-> Nil]

\* ------------------------------------------------------------ the program
\* pc          where StorageMigration.Migrate is: "next" (about to call
\*             NextAddress), "migrate" (about to call migrateValuesInAccount),
\*             "commit", "done" (returned) or "panic" (aborted)
\* iterator    the addresses the AddressIterator has not yielded yet
\* address     the last address NextAddress returned
\* accounts    the storage: per address its heap and its stored values
\*             (slots: sequence of [domain, key, value])
\* log         the observable events of the run, in order
\* migrations  the migrations argument, reporter the reporter argument
\*             (FALSE: nil)
\* accounts0, iterator0   accounts and iterator at the start of the run
\*             (history variables)
VARIABLES pc, iterator, address, accounts, log, migrations, reporter,
          accounts0, iterator0

vars == <<pc, iterator, address, accounts, log, migrations, reporter,
          accounts0, iterator0>>

ZeroAddress == 0

\* The migrateValue closure of migrateValuesInAccount, called by ForEachValue
\* with a stored value (slot) and its address, domain and key.
migrateValue(slot, addr, ctxBase, st) ==
    migrateNestedValue(slot.value,
                       [address |-> addr, domain |-> slot.domain,
                        key |-> slot.key, migrations |-> ctxBase.migrations,
                        reporter |-> ctxBase.reporter],
                       st)

\* What ForEachValue does with the result r of migrateValue for the i-th
\* stored value: a non-nil result replaces the stored value.
StoreValue(w, i, r) ==
    IF r.st.panicked \/ r.ret = Nil
    THEN [w EXCEPT !.st = r.st]
    ELSE [slots |-> [w.slots EXCEPT ![i].value = r.ret],
          st |-> [r.st EXCEPT !.log =
                     Append(@, [e |-> "StorageWrite",
                                domain |-> w.slots[i].domain,
                                key |-> w.slots[i].key,
                                value |-> r.ret])]]

RECURSIVE ForEachValue(_, _, _, _)
\* AccountStorage.ForEachValue: every stored value of the account is handed
\* to migrateValue with its domain and key.  w = [slots, st].
ForEachValue(w, i, addr, ctxBase) ==
    IF i > Len(w.slots) \/ w.st.panicked THEN w
    ELSE ForEachValue(
             StoreValue(w, i, migrateValue(w.slots[i], addr, ctxBase, w.st)),
             i + 1, addr, ctxBase)

\* Mutant: a panic of the pass is recovered and the loop goes on.
AfterAccount_Recovers(w) ==
    /\ accounts' = [accounts EXCEPT ![address] =
                       [heap |-> w.st.heap, slots |-> w.slots]]
    /\ log' = w.st.log
    /\ pc' = "next"

\* The state after the per-address pass that ended with w = [slots, st].
AfterAccount(w) ==
    /\ accounts' = [accounts EXCEPT ![address] =
                       [heap |-> w.st.heap, slots |-> w.slots]]
    /\ log' = w.st.log
    /\ pc' = IF w.st.panicked THEN "panic" ELSE "next"

\* Mutant: the loop stops when the iterator has nothing left after the address
\* it has just yielded, so the last address is never migrated.
NextAddress_SkipsLast ==
    /\ pc = "next"
    /\ LET a == IF iterator = <<>> THEN ZeroAddress ELSE Head(iterator)
       IN  /\ address' = a
           /\ iterator' = IF iterator = <<>> THEN iterator ELSE Tail(iterator)
           /\ log' = Append(log, [e |-> "NextAddress", address |-> a])
           /\ pc' = IF a = ZeroAddress \/ iterator' = <<>> THEN "commit"
                    ELSE "migrate"
    /\ UNCHANGED <<accounts, migrations, reporter, accounts0, iterator0>>

NextAddress ==
    /\ pc = "next"
    /\ LET a == IF iterator = <<>> THEN ZeroAddress ELSE Head(iterator)
       IN  /\ address' = a
           /\ iterator' = IF iterator = <<>> THEN iterator ELSE Tail(iterator)
           /\ log' = Append(log, [e |-> "NextAddress", address |-> a])
           /\ pc' = IF a = ZeroAddress THEN "commit" ELSE "migrate"
    /\ UNCHANGED <<accounts, migrations, reporter, accounts0, iterator0>>

\* StorageMigration.migrateValuesInAccount(address, reporter, migrations)
migrateValuesInAccount ==
    /\ pc = "migrate"
    /\ AfterAccount(
           ForEachValue(
               [slots |-> accounts[address].slots,
                st |-> [heap |-> accounts[address].heap,
                        log |-> Append(log, [e |-> "Account",
                                             address |-> address]),
                        panicked |-> FALSE]],
               1, address,
               [migrations |-> migrations, reporter |-> reporter]))
    /\ UNCHANGED <<iterator, address, migrations, reporter, accounts0, iterator0>>

\* Mutant: the commit is inside the loop, after each account.
Commit_InLoop ==
    /\ pc \in {"commit", "next"}
    /\ \A p \in 1..Len(log) : log[p].e # "Commit"
    /\ \E err \in BOOLEAN :
          /\ log' = Append(log, [e |-> "Commit", err |-> err])
          /\ pc' = IF err THEN "panic" ELSE IF pc = "next" THEN "next" ELSE "done"
    /\ UNCHANGED <<iterator, address, accounts, migrations, reporter, accounts0,
                   iterator0>>

\* Mutant: the error of the commit is ignored.
Commit_IgnoresError ==
    /\ pc = "commit"
    /\ \E err \in BOOLEAN :
          /\ log' = Append(log, [e |-> "Commit", err |-> err])
          /\ pc' = "done"
    /\ UNCHANGED <<iterator, address, accounts, migrations, reporter, accounts0,
                   iterator0>>

\* m.storage.Commit(m.interpreter, false); a non-nil error panics.
Commit ==
    /\ pc = "commit"
    /\ \E err \in BOOLEAN :
          /\ log' = Append(log, [e |-> "Commit", err |-> err])
          /\ pc' = IF err THEN "panic" ELSE "done"
    /\ UNCHANGED <<iterator, address, accounts, migrations, reporter, accounts0,
                   iterator0>>

Next == NextAddress \/ migrateValuesInAccount \/ Commit

\* ------------------------------------------------------------------ inputs
IntContents == 0..MaxVal

\* n leaves labelled base+1 .. base+n, with every choice of contents from vals.
Leaves(n, base, vals) ==
    {[i \in 1..n |-> Leaf(base + i, f[i])] : f \in [1..n -> vals]}

IntLeaves(n, base) == Leaves(n, base, {IntValue(c) : c \in IntContents})

\* Leaves of containers: the abstract primitive values and a leaf of another
\* kind.
AnyLeaves(n, base) ==
    Leaves(n, base, {IntValue(c) : c \in IntContents} \cup {OtherValue})

\* Dictionary keys: pairwise different contents, in every iteration order.
KeyLeaves(n, base) ==
    {ks \in IntLeaves(n, base) :
        \A i, j \in 1..n : i # j => ks[i].val # ks[j].val}

FieldNames == <<"a", "b", "c", "d">>

FlatContainers ==
    {SomeValue(l[1]) : l \in AnyLeaves(1, 0)}
    \cup UNION {{ArrayValue(l) : l \in AnyLeaves(n, 0)} : n \in 0..MaxLen}
    \cup UNION {{CompositeValue([i \in 1..n |->
                                   [name |-> FieldNames[i], value |-> l[i]]]) :
                    l \in AnyLeaves(n, 0)} : n \in 0..MaxLen}
    \cup UNION {{DictionaryValue([i \in 1..n |->
                                    [key |-> ks[i], value |-> l[i]]]) :
                    ks \in KeyLeaves(n, 10), l \in AnyLeaves(n, 0)} :
                n \in 0..MaxLen}

\* The containers that hold one container c, stored at Ref(1).
Wrappers ==
    {SomeValue(Ref(1)), ArrayValue(<<Ref(1)>>),
     CompositeValue(<<[name |-> FieldNames[1], value |-> Ref(1)]>>)}
    \cup {DictionaryValue(<<[key |-> k[1], value |-> Ref(1)]>>) :
            k \in IntLeaves(1, 20)}

\* A stored value with the heap that holds it.
Graph(heap, root) == [heap |-> heap, root |-> root]

DeepGraphs ==
    {Graph(<<>>, l[1]) : l \in AnyLeaves(1, 0)}
    \cup {Graph(<<c>>, Ref(1)) : c \in FlatContainers}
    \cup {Graph(<<c, w>>, Ref(2)) : c \in FlatContainers, w \in Wrappers}

\* The static types held by the stored TypeValues.
StoredTypes ==
    {PrimitiveStaticType("AuthAccount"), PrimitiveStaticType("PublicAccount"),
     PrimitiveStaticType("Int")}

\* Optional(Array([TypeValue(t)]))
TypeGraphs ==
    {Graph(<<ArrayValue(<<Leaf(1, TypeValue(t))>>), SomeValue(Ref(1))>>, Ref(2)) :
        t \in StoredTypes}

\* An array of MaxLen abstract leaves: [0, 1, ...]
IntArrayGraph ==
    Graph(<<ArrayValue([i \in 1..MaxLen |->
                          Leaf(i, IntValue((i - 1) % (MaxVal + 1)))])>>, Ref(1))

RunnerGraphs == TypeGraphs \cup {IntArrayGraph}

Places == {<<"storage", "foo">>, <<"public", "bar">>}

Slot(domain, key, value) == [domain |-> domain, key |-> key, value |-> value]

\* An account's storage: nothing stored, or one stored value under one of
\* places (pairs of domain and key).
Accounts(graphs, places) ==
    {[heap |-> <<>>, slots |-> <<>>]}
    \cup {[heap |-> g.heap, slots |-> <<Slot(p[1], p[2], g.root)>>] :
            g \in graphs, p \in places}

\* The results a Migration other than StaticTypeMigration can give.
Outcomes(withErrors) ==
    {NoReplacement} \cup {Replacement(IntValue(c)) : c \in IntContents}
    \cup (IF withErrors THEN {MigrateError} ELSE {})

MigrationNames == <<"A", "B", "C", "D">>

\* What the i-th migration of a list can be: MigrationNames[i] with any
\* behaviour, or (withStatic) StaticTypeMigration.
MigrationChoices(i, withStatic, withErrors) ==
    {FnMigration(MigrationNames[i], fn) :
        fn \in [IntContents -> Outcomes(withErrors)]}
    \cup (IF withStatic THEN {StaticTypeMigration} ELSE {})

\* Lists of at most MaxMigrations migrations.
MigrationLists(withStatic, withErrors) ==
    UNION {{ms \in [1..n -> UNION {MigrationChoices(i, withStatic, withErrors) :
                                      i \in 1..n}] :
              \A i \in 1..n : ms[i] \in MigrationChoices(i, withStatic, withErrors)} :
           n \in 0..MaxMigrations}

Addresses == 1..MaxAddrs

\* What an AddressIterator yields before the zero address: addresses to
\* migrate, each once.
AddressSequences ==
    UNION {{q \in [1..n -> Addresses] : \A i, j \in 1..n : i # j => q[i] # q[j]} :
           n \in 0..MaxAddrs}

InitCommon ==
    /\ pc = "next"
    /\ address = ZeroAddress
    /\ log = <<>>
    /\ accounts0 = accounts
    /\ iterator0 = iterator

\* Runs over several accounts, with StaticTypeMigration among the migrations
\* and migrations that may fail.
Init ==
    /\ iterator \in AddressSequences
    /\ accounts \in [Addresses -> Accounts(RunnerGraphs, Places)]
    /\ migrations \in MigrationLists(TRUE, TRUE)
    /\ reporter \in BOOLEAN
    /\ InitCommon

Spec == Init /\ [][Next]_vars

\* Runs over one account that holds one value, of every shape up to two
\* levels of containers.
DeepInit ==
    /\ iterator = <<1>>
    /\ \E acct \in Accounts(DeepGraphs, {<<"storage", "foo">>}) :
          /\ acct.slots # <<>>
          /\ accounts = [a \in Addresses |-> acct]
    /\ migrations \in MigrationLists(FALSE, FALSE)
    /\ reporter = TRUE
    /\ InitCommon

DeepSpec == DeepInit /\ [][Next]_vars

\* The stored values that hold a dictionary.
DictionaryGraphs ==
    {g \in DeepGraphs :
        \E id \in DOMAIN g.heap : g.heap[id].kind = "dictionary"}

\* What the i-th migration of a list can be when migrations may also remove
\* entries of the dictionaries they are run over.
InterferingChoices(i) ==
    MigrationChoices(i, FALSE, FALSE)
    \cup {InterferingMigration(MigrationNames[i], fn, c) :
            fn \in [IntContents -> Outcomes(FALSE)], c \in IntContents}

InterferingLists ==
    UNION {{ms \in [1..n -> UNION {InterferingChoices(i) : i \in 1..n}] :
              \A i \in 1..n : ms[i] \in InterferingChoices(i)} :
           n \in 1..MaxMigrations}

\* One account with a stored dictionary, migrated by migrations that may
\* change the dictionary behind the traversal's back.
InterfereInit ==
    /\ iterator = <<1>>
    /\ \E acct \in Accounts(DictionaryGraphs, {<<"storage", "foo">>}) :
          /\ acct.slots # <<>>
          /\ accounts = [a \in Addresses |-> acct]
    /\ migrations \in InterferingLists
    /\ reporter = TRUE
    /\ InitCommon

InterfereSpec == InterfereInit /\ [][Next]_vars

\* ------------------------------------------------- inputs: static types
\* Sequences of pairwise different elements of S, of the lengths in lens.
DistinctSeqs(S, lens) ==
    UNION {{q \in [1..n -> S] : \A i, j \in 1..n : i # j => q[i] # q[j]} :
           n \in lens}

LegacyPrimitives ==
    {"PublicAccount", "AuthAccount", "AuthAccountCapabilities",
     "PublicAccountCapabilities", "AuthAccountAccountCapabilities",
     "AuthAccountStorageCapabilities", "AuthAccountContracts",
     "PublicAccountContracts", "AuthAccountKeys", "PublicAccountKeys",
     "AuthAccountInbox", "AccountKey"}

CurrentPrimitives ==
    {"Account", "Account_Capabilities", "Account_AccountCapabilities",
     "Account_StorageCapabilities", "Account_Contracts", "Account_Keys",
     "Account_Inbox", "Int", "String"}

PrimitiveTypes ==
    {PrimitiveStaticType(p) : p \in LegacyPrimitives \cup CurrentPrimitives}

InterfaceNames == <<"I1", "I2", "I3", "I4", "I5">>

Interface(i) == InterfaceStaticType("A", InterfaceNames[i])

InterfaceTypes == {Interface(i) : i \in 1..MaxInterfaces}

Composite(name) == CompositeStaticType("A", name, "A." \o name)

\* The types held by the wrappers of the first level.
HeldTypes ==
    {PrimitiveStaticType(p) :
        p \in {"AuthAccount", "PublicAccount", "AuthAccountKeys", "Int"}}
    \cup {Composite("C1"), Interface(1), FunctionStaticType("fun")}

KnownAuthorizations ==
    {Unauthorized, EntitlementSetAuthorization(<<"E1">>, "Conjunction"),
     EntitlementMapAuthorization("M1")}

ReferenceTypes(S) ==
    {ReferenceStaticType(auth, t) : auth \in KnownAuthorizations, t \in S}

\* The wrappers of one type of S; a capability type may have no borrow type.
WrapperTypes(S) ==
    {OptionalStaticType(t) : t \in S}
    \cup {VariableSizedStaticType(t) : t \in S}
    \cup {ConstantSizedStaticType(t, 2) : t \in S}
    \cup {CapabilityStaticType(t) : t \in S \cup {NoType}}
    \cup ReferenceTypes(S)

\* Intersections of pairwise different interfaces, with and without a
\* legacy type.
IntersectionTypes ==
    {[IntersectionStaticType(ts) EXCEPT !.legacyType = l] :
        ts \in DistinctSeqs(InterfaceTypes, 0..MaxInterfaces),
        l \in {NoType, Composite("C1"), PrimitiveStaticType("AuthAccount")}}

FirstLevelTypes ==
    WrapperTypes(HeldTypes)
    \cup {DictionaryStaticType(kt, vt) : kt \in HeldTypes, vt \in HeldTypes}
    \cup IntersectionTypes

\* The closed set of variants, up to two levels of wrappers.
StaticTypes ==
    PrimitiveTypes \cup HeldTypes \cup InterfaceTypes \cup FirstLevelTypes
    \cup WrapperTypes(FirstLevelTypes)

\* What a composite converter may return for the composite C1: nil, another
\* composite, a primitive, a newly built &Account, an interface.
CompositeConverters ==
    {NoConverter}
    \cup {Converter([c \in {Composite("C1")} |-> out]) :
            out \in {NoType, Composite("C2"), PrimitiveStaticType("Account"),
                     ReferenceStaticType(Unauthorized,
                                         PrimitiveStaticType("Account")),
                     Interface(1)}}

\* What an interface converter may return for I1 and I2: nil, another
\* interface, or (a misuse) a type that is not an interface.
InterfaceConverters ==
    {NoConverter}
    \cup {Converter(fn) :
            fn \in [{Interface(1), Interface(2)} ->
                       {NoType, Interface(2), Interface(3), Composite("C1")}]}

StaticTypeMigrations ==
    {WithInterfaceTypeConverter(WithCompositeTypeConverter(StaticTypeMigration, cc),
                                ic) :
        cc \in CompositeConverters, ic \in InterfaceConverters}

\* The leaves that hold a static type: a TypeValue of any type, and the
\* capability, link and controller values with the borrow types of the
\* first level (a controller's borrow type is a reference).
TypeShapedValues ==
    {TypeValue(t) : t \in StaticTypes}
    \cup {CapabilityValue(1, 1, t) : t \in ReferenceTypes(HeldTypes)}
    \cup {PathCapabilityValue(t, "/public/p", 1) :
            t \in ReferenceTypes(HeldTypes)}
    \cup {PathLinkValue(t, "/storage/t") : t \in ReferenceTypes(HeldTypes)}
    \cup {AccountCapabilityControllerValue(t, 1) :
            t \in ReferenceTypes(HeldTypes)}
    \cup {StorageCapabilityControllerValue(t, 1, "/storage/t") :
            t \in ReferenceTypes(HeldTypes)}

\* Runs of one static-type migration, given twice, over one account that
\* holds one leaf with a static type.
TypeInit ==
    /\ iterator = <<1>>
    /\ \E val \in TypeShapedValues :
          accounts = [a \in Addresses |->
                         [heap |-> <<>>,
                          slots |-> <<Slot("storage", "foo", Leaf(1, val))>>]]
    /\ \E m \in StaticTypeMigrations : migrations = <<m, m>>
    /\ reporter = TRUE
    /\ InitCommon

TypeSpec == TypeInit /\ [][Next]_vars

\* The leaves of the other kinds.
OtherLeaves == {IntValue(n) : n \in IntContents} \cup {OtherValue}

\* The same runs over one leaf of any kind.
LeafInit ==
    /\ iterator = <<1>>
    /\ \E val \in TypeShapedValues \cup OtherLeaves :
          accounts = [a \in Addresses |->
                         [heap |-> <<>>,
                          slots |-> <<Slot("storage", "foo", Leaf(1, val))>>]]
    /\ \E m \in StaticTypeMigrations : migrations = <<m, m>>
    /\ reporter = TRUE
    /\ InitCommon

LeafSpec == LeafInit /\ [][Next]_vars

\* Stored values on which a pass can end in a fatal error, and ones on
\* which it cannot: a dictionary of two entries, a TypeValue of a capability
\* type without a borrow type, of an intersection type, of a composite
\* type, a capability controller, an abstract leaf.
FatalGraphs ==
    {Graph(<<DictionaryValue([i \in 1..2 |->
                                [key |-> Leaf(10 + i, IntValue(i - 1)),
                                 value |-> Leaf(i, OtherValue)]])>>, Ref(1))}
    \cup {Graph(<<>>, Leaf(1, val)) :
            val \in {TypeValue(CapabilityStaticType(NoType)),
                     TypeValue(IntersectionStaticType(<<Interface(1)>>)),
                     TypeValue(Composite("C1")),
                     AccountCapabilityControllerValue(
                         ReferenceStaticType(Unauthorized, Interface(1)), 1),
                     IntValue(0)}}

\* What the i-th migration can be: one that replaces nothing, one that
\* replaces nothing and removes the entry of key 1 from the dictionaries,
\* StaticTypeMigration without converters, and with an interface converter
\* that returns a composite type.
FatalChoices(i) ==
    {FnMigration(MigrationNames[i], [c \in IntContents |-> NoReplacement]),
     InterferingMigration(MigrationNames[i],
                          [c \in IntContents |-> NoReplacement], 1),
     StaticTypeMigration,
     WithInterfaceTypeConverter(
         StaticTypeMigration,
         Converter([t \in {Interface(1)} |-> Composite("C1")]))}

FatalLists ==
    UNION {{ms \in [1..n -> UNION {FatalChoices(i) : i \in 1..n}] :
              \A i \in 1..n : ms[i] \in FatalChoices(i)} :
           n \in 1..MaxMigrations}

\* Runs over several accounts in which a pass may end in a fatal error.
FatalInit ==
    /\ iterator \in AddressSequences
    /\ accounts \in [Addresses -> Accounts(FatalGraphs, {<<"storage", "foo">>})]
    /\ migrations \in FatalLists
    /\ reporter = TRUE
    /\ InitCommon

FatalSpec == FatalInit /\ [][Next]_vars

\* ---------------------------------------------------- inputs: equality
EntitlementIDs == {"E1", "E2", "E3"}

\* The authorizations: unauthorized, the entitlement sets built from lists
\* (in every order, with repetitions) of up to MaxEntitlements entitlements,
\* of both kinds, and entitlement maps.
Authorizations ==
    {Unauthorized}
    \cup {EntitlementSetAuthorization(ids, setKind) :
            ids \in UNION {[1..n -> EntitlementIDs] : n \in 0..MaxEntitlements},
            setKind \in {"Conjunction", "Disjunction"}}
    \cup {EntitlementMapAuthorization(id) : id \in {"M1", "M2"}}

\* The reference types that are compared.
ComparedTypes ==
    {ReferenceStaticType(auth, PrimitiveStaticType(p)) :
        auth \in Authorizations, p \in {"Account", "Int"}}

\* Two static types, held by two stored TypeValues, about to be compared.
EqualInit ==
    /\ pc = "equal"
    /\ \E left \in ComparedTypes, right \in ComparedTypes :
          accounts =
              [a \in Addresses |->
                  [heap |-> <<>>,
                   slots |-> <<Slot("storage", "left",
                                    Leaf(1, TypeValue(left))),
                               Slot("storage", "right",
                                    Leaf(2, TypeValue(right)))>>]]
    /\ iterator = <<>>
    /\ address = ZeroAddress
    /\ migrations = <<>>
    /\ reporter = FALSE
    /\ log = <<>>
    /\ accounts0 = accounts
    /\ iterator0 = iterator

Left == accounts[1].slots[1].value.val.type

Right == accounts[1].slots[2].value.val.type

\* left.Equal(right), its result kept in the log.
CallEqual ==
    /\ pc = "equal"
    /\ pc' = "done"
    /\ log' = Append(log, [e |-> "Equal", left |-> Left, right |-> Right,
                           result |-> Equal(Left, Right)])
    /\ UNCHANGED <<iterator, address, accounts, migrations, reporter,
                   accounts0, iterator0>>

EqualNext == CallEqual

EqualSpec == EqualInit /\ [][EqualNext]_vars

\* Lists of interface types of the lengths in lens, in every order and with
\* repetitions: Types is a slice, which NewIntersectionStaticType keeps as
\* it is given.
InterfaceLists(lens) ==
    UNION {[1..n -> {Interface(1), Interface(2)}] : n \in lens}

\* Intersection types with and without a legacy type.
ComparedIntersections ==
    {[IntersectionStaticType(ts) EXCEPT !.legacyType = l] :
        ts \in InterfaceLists(0..MaxLen),
        l \in {NoType, Composite("C1")}}

\* The types held by the compared wrappers: nominal types that share a type
\* ID or a qualified identifier, a primitive, a function, an intersection.
ComparedHeldTypes ==
    {Composite("C1"), Composite("C2"), CompositeStaticType("B", "C1", "A.C1"),
     Interface(1), Interface(2), InterfaceStaticType("B", "I1"),
     PrimitiveStaticType("Int"), PrimitiveStaticType("Account"),
     FunctionStaticType("fun"),
     IntersectionStaticType(<<Interface(1)>>),
     [IntersectionStaticType(<<Interface(1)>>) EXCEPT
         !.legacyType = Composite("C1")]}

\* One type of every variant, and the wrappers of a held type.
ComparedStaticTypes ==
    ComparedHeldTypes \cup ComparedIntersections
    \cup {OptionalStaticType(t) : t \in ComparedHeldTypes}
    \cup {VariableSizedStaticType(t) : t \in ComparedHeldTypes}
    \cup {ConstantSizedStaticType(PrimitiveStaticType("Int"), n) : n \in {2, 3}}
    \cup {DictionaryStaticType(kt, vt) :
            kt \in {PrimitiveStaticType("Int"), Composite("C1")},
            vt \in {PrimitiveStaticType("Int"), Composite("C1")}}
    \cup {CapabilityStaticType(t) : t \in ComparedHeldTypes \cup {NoType}}
    \cup {ReferenceStaticType(auth, t) :
            auth \in KnownAuthorizations,
            t \in {PrimitiveStaticType("Account"), Composite("C1")}}

\* Two static types of any variants, held by two stored TypeValues, about to
\* be compared.
TypeEqualInit ==
    /\ pc = "equal"
    /\ \E left \in ComparedStaticTypes, right \in ComparedStaticTypes :
          accounts =
              [a \in Addresses |->
                  [heap |-> <<>>,
                   slots |-> <<Slot("storage", "left",
                                    Leaf(1, TypeValue(left))),
                               Slot("storage", "right",
                                    Leaf(2, TypeValue(right)))>>]]
    /\ iterator = <<>>
    /\ address = ZeroAddress
    /\ migrations = <<>>
    /\ reporter = FALSE
    /\ log = <<>>
    /\ accounts0 = accounts
    /\ iterator0 = iterator

TypeEqualSpec == TypeEqualInit /\ [][EqualNext]_vars

\* ------------------------------------------------------- reading the log
\* Positions of the log that hold an event of kind e.
At(e) == {p \in 1..Len(log) : log[p].e = e}

\* The address of the per-address pass that position p of the log is in.
PassOf(p) ==
    LET starts == {q \in At("Account") : q < p}
    IN  log[CHOOSE q \in starts : \A r \in starts : r <= q].address

\* The passes so far, as the sequence of their addresses.
RECURSIVE PassesUpTo(_)
PassesUpTo(n) ==
    IF n = 0 THEN <<>>
    ELSE IF log[n].e = "Account" THEN Append(PassesUpTo(n - 1), log[n].address)
    ELSE PassesUpTo(n - 1)

Passes == PassesUpTo(Len(log))

\* What the chain of migrations ms, from the i-th on, makes of leaf content
\* val: each migration is applied to the result of the ones before it, and
\* one that gives no replacement (or an error) leaves the content as it is.
RECURSIVE Chained(_, _, _)
Chained(ms, i, val) ==
    IF i > Len(ms) THEN val
    ELSE LET out == Migrate(ms[i], val)
         IN  Chained(ms, i + 1, IF out.o = "value" THEN out.val ELSE val)

\* Whether some migration of the chain replaces the leaf content val.
RECURSIVE Replaces(_, _, _)
Replaces(ms, i, val) ==
    /\ i <= Len(ms)
    /\ LET out == Migrate(ms[i], val)
       IN  \/ out.o = "value"
           \/ Replaces(ms, i + 1, val)

\* --------------------------------------------------------------------- C1
\* C1 (chaining).  In the leaf case the migrations are offered the leaf in
\* the given order, each one receiving the current working value: the first
\* gets a leaf, the i-th gets, for the same leaf, the replacement the
\* (i-1)-th returned or else what the (i-1)-th was given; a replacement is
\* reported right after the call that returned it, so the notifications
\* come in the order of the migrations; and the value written back to the
\* enclosing array or composite is the result of the whole chain.
C1_OfferedInOrder ==
    \A p \in At("Migrate") :
        /\ log[p].m > 1 =>
              \E q \in At("Migrate") :
                  /\ q < p
                  /\ \A r \in At("Migrate") : ~(q < r /\ r < p)
                  /\ log[q].m = log[p].m - 1
                  /\ log[q].lid = log[p].lid
                  /\ log[p].val = IF log[q].out.o = "value"
                                  THEN log[q].out.val ELSE log[q].val
        /\ log[p].m < Len(migrations) =>
              \E q \in At("Migrate") :
                  q > p /\ log[q].m = log[p].m + 1 /\ log[q].lid = log[p].lid
        /\ log[p].out.o = "value" =>
              /\ p < Len(log)
              /\ log[p + 1].e = "Migrated"
              /\ log[p + 1].migration = migrations[log[p].m].name

C1_WrittenBack ==
    \A p \in At("ArraySet") \cup At("SetMember") :
        log[p].value.kind = "leaf" =>
            \E q \in At("Migrate") :
                /\ q < p
                /\ log[q].lid = log[p].value.lid
                /\ log[q].m = 1
                /\ log[p].value.val = Chained(migrations, 1, log[q].val)

C1_Chaining == C1_OfferedInOrder /\ C1_WrittenBack

\* A leaf x of an array or composite that the first migration replaced by
\* y # x and the second replaced y by z # y (which it would not have done
\* with x), reported in that order, z written back.
C1_Witness ==
    \E p \in At("Migrate"), w \in At("ArraySet") \cup At("SetMember") :
        /\ Len(migrations) = 2
        /\ log[p].m = 1 /\ log[p].out.o = "value" /\ log[p].out.val # log[p].val
        /\ p + 3 <= Len(log)
        /\ log[p + 1].e = "Migrated" /\ log[p + 1].migration = "A"
        /\ log[p + 2].e = "Migrate" /\ log[p + 2].m = 2
        /\ log[p + 2].val = log[p].out.val
        /\ log[p + 2].out.o = "value" /\ log[p + 2].out.val # log[p + 2].val
        /\ Migrate(migrations[2], log[p].val).o = "nil"
        /\ log[p + 3].e = "Migrated" /\ log[p + 3].migration = "B"
        /\ w = p + 4
        /\ log[w].value = Leaf(log[p].lid, log[p + 2].out.val)

\* ------------------------------------------------- containers of a pass
\* DeepSpec migrates one account, address 1; its pass is one step.
PassDone == At("Account") # {}

Heap0 == accounts0[1].heap

HeapNow == accounts[1].heap

\* The containers of a kind that the account held before the run.
Objects0(kind) == {id \in 1..Len(Heap0) : Heap0[id].kind = kind}

Range(q) == {q[i] : i \in 1..Len(q)}

\* Whether the traversal of value v (held in the heap before the run) gives
\* no replacement: a leaf that no migration replaces, an optional of such a
\* value, or an array, composite or dictionary.
RECURSIVE NotReplaced(_)
NotReplaced(v) ==
    IF v.kind = "leaf" THEN ~Replaces(migrations, 1, v.val)
    ELSE IF Heap0[v.id].kind = "some" THEN NotReplaced(Heap0[v.id].inner)
    ELSE TRUE

\* --------------------------------------------------------------------- C2
\* The dictionary entry e0 (before the run) of which the migrations change
\* the key and leave the value alone has moved in dictionary d: there is an
\* entry with the new key and the same value and none with the old key.
Relocated(d, e0) ==
    LET k2 == Chained(migrations, 1, e0.key.val)
    IN  /\ \E f \in Range(HeapNow[d].entries) :
              f.key.val = k2 /\ f.value = e0.value
        /\ ~\E f \in Range(HeapNow[d].entries) : f.key.val = e0.key.val

\* The migrations change the key of e0 (to a different key) and leave its
\* value unchanged.
KeyChangedOnly(e0) ==
    /\ Replaces(migrations, 1, e0.key.val)
    /\ Chained(migrations, 1, e0.key.val) # e0.key.val
    /\ NotReplaced(e0.value)

\* C2 (dictionary key relocation).  For a dictionary that contains k1 mapped
\* to v1, if the migrations change k1 to k2 and leave v1 unchanged, then
\* after the traversal the dictionary contains k2 mapped to v1 and does not
\* contain k1.
C2_KeyRelocation ==
    PassDone =>
        \A d \in Objects0("dictionary") :
            \A e0 \in Range(Heap0[d].entries) :
                KeyChangedOnly(e0) => Relocated(d, e0)

\* No other key of the dictionary is replaced by a key equal to k1 or k2,
\* and a key equal to k2 is not replaced.
NoOtherKeyInterferes(d, e0) ==
    LET k2 == Chained(migrations, 1, e0.key.val)
    IN  \A o \in Range(Heap0[d].entries) :
            (o.key.val # e0.key.val /\ Replaces(migrations, 1, o.key.val)) =>
                /\ Chained(migrations, 1, o.key.val) \notin {e0.key.val, k2}
                /\ o.key.val # k2

\* The relocation does hold when no other key of the dictionary collides
\* with k1 or k2.
RelocationWithoutCollision ==
    PassDone =>
        \A d \in Objects0("dictionary") :
            \A e0 \in Range(Heap0[d].entries) :
                (KeyChangedOnly(e0) /\ NoOtherKeyInterferes(d, e0)) =>
                    Relocated(d, e0)

\* A dictionary of two entries of which one key was changed to a new key,
\* with the value left alone, and the entry has moved.
RelocationHappens ==
    /\ PassDone
    /\ \E d \in Objects0("dictionary") :
          /\ Len(Heap0[d].entries) = 2
          /\ \E e0 \in Range(Heap0[d].entries) :
                /\ KeyChangedOnly(e0)
                /\ NoOtherKeyInterferes(d, e0)
                /\ Relocated(d, e0)
                /\ \E p \in At("RemoveKey") : log[p].key = e0.key.val

\* --------------------------------------------------------------------- C3
\* The values held directly by a heap object.
Children(obj) ==
    CASE obj.kind = "some" -> {obj.inner}
      [] obj.kind = "array" -> Range(obj.elems)
      [] obj.kind = "composite" -> {f.value : f \in Range(obj.fields)}
      [] obj.kind = "dictionary" ->
            {f.key : f \in Range(obj.entries)} \cup
            {f.value : f \in Range(obj.entries)}

\* The heap objects of heap that value v reaches (v's own included).
RECURSIVE Reach(_, _)
Reach(heap, v) ==
    IF v.kind # "ref" THEN {}
    ELSE {v.id} \cup UNION {Reach(heap, c) : c \in Children(heap[v.id])}

Containers0 ==
    Objects0("array") \cup Objects0("composite") \cup Objects0("dictionary")

\* Container id is still the same object in the stored value, of the same
\* size: element count, set of field names, number of entries.
SameContainer(id) ==
    /\ id \in Reach(HeapNow, accounts[1].slots[1].value)
    /\ HeapNow[id].kind = Heap0[id].kind
    /\ Heap0[id].kind = "array" => Len(HeapNow[id].elems) = Len(Heap0[id].elems)
    /\ Heap0[id].kind = "composite" =>
          {f.name : f \in Range(HeapNow[id].fields)} =
          {f.name : f \in Range(Heap0[id].fields)}
    /\ Heap0[id].kind = "dictionary" =>
          Len(HeapNow[id].entries) = Len(Heap0[id].entries)

\* C3 (leaf-only mutation).  For any stored array, composite or dictionary
\* and any migrations, after a traversal pass the container is the same
\* object, an array has the same element count, a composite the same set of
\* field names and a dictionary the same number of entries as before.
C3_LeafOnlyMutation ==
    PassDone => \A id \in Containers0 : SameContainer(id)

\* --------------------------------------------------------------------- C4
\* C4.  During one traversal pass each migration's Migrate is invoked at
\* most once for each leaf of the value graph: no two Migrate calls of a
\* pass are by the same migration for the same leaf.
C4_MigrateAtMostOncePerLeaf ==
    \A p, q \in At("Migrate") :
        (/\ log[p].m = log[q].m
         /\ log[p].lid = log[q].lid
         /\ PassOf(p) = PassOf(q)) => p = q

\* --------------------------------------------------------------------- C5
\* The stored value (its domain and key) that the pass of address a migrates.
SlotOf(a) == accounts0[a].slots[1]

\* The notification of a replacement by the call at position p of the log.
MigratedFor(p) ==
    [e |-> "Migrated", address |-> PassOf(p), domain |-> SlotOf(PassOf(p)).domain,
     key |-> SlotOf(PassOf(p)).key, migration |-> migrations[log[p].m].name]

Replacing == {p \in At("Migrate") : log[p].out.o = "value"}

\* C5.  With a reporter, every non-nil replacement returned by a migration
\* produces exactly one notification, carrying the address, domain and key
\* of the stored root value and the migration's name, and a call that
\* returns no replacement produces none: every notification directly
\* follows the call that returned the replacement, and the number of
\* notifications equals the number of non-nil Migrate results.
C5_OneNotificationPerReplacement ==
    /\ \A q \in At("Migrated") :
          q - 1 \in Replacing /\ log[q] = MigratedFor(q - 1)
    /\ reporter =>
          /\ \A p \in Replacing : p < Len(log) /\ log[p + 1] = MigratedFor(p)
          /\ \A a \in Range(Passes) :
                Cardinality({q \in At("Migrated") : PassOf(q) = a}) =
                    Cardinality({p \in Replacing : PassOf(p) = a})

\* A finished run with a reporter over two accounts with values stored under
\* different keys, with replacements in both and with calls that returned
\* no replacement.
C5_Witness ==
    /\ pc = "done" /\ reporter
    /\ \E p, q \in At("Migrated") :
          /\ log[p].address # log[q].address
          /\ log[p].key # log[q].key
          /\ log[p].migration # log[q].migration
    /\ \E p \in At("Migrate") : log[p].out.o = "nil"
    /\ \E p \in At("Migrate") : log[p].out.o = "err"

\* --------------------------------------------------------------------- C6
\* The notification of the error returned by the call at position p.
ErrorFor(p) ==
    [e |-> "Error", address |-> PassOf(p), domain |-> SlotOf(PassOf(p)).domain,
     key |-> SlotOf(PassOf(p)).key, migration |-> migrations[log[p].m].name]

Failing == {p \in At("Migrate") : log[p].out.o = "err"}

IsIntArray(acct) ==
    /\ acct.slots # <<>>
    /\ acct.heap = IntArrayGraph.heap

\* C6.  An error of a migration for a leaf is recoverable: Reporter.Error is
\* called with the storage key, the storage map key and the migration name;
\* the next migration is offered the same leaf with the same content; the
\* leaf ends, in its container, with what the migrations that did not fail
\* made of it (its original content if none replaced it); every leaf of
\* the array is still offered to every migration; and the run ends only by
\* the commit: it is aborted by nothing but a failed commit.
C6_ErrorIsRecoverable ==
    /\ \A p \in Failing :
          /\ reporter => (p < Len(log) /\ log[p + 1] = ErrorFor(p))
          /\ log[p].m < Len(migrations) =>
                LET q == IF reporter THEN p + 2 ELSE p + 1
                IN  /\ q <= Len(log)
                    /\ log[q].e = "Migrate"
                    /\ log[q].m = log[p].m + 1
                    /\ log[q].lid = log[p].lid
                    /\ log[q].val = log[p].val
    /\ \A q \in At("Error") : q - 1 \in Failing
    /\ \A a \in Range(Passes) :
          IsIntArray(accounts0[a]) =>
              /\ \A i \in 1..Len(accounts0[a].heap[1].elems) :
                    LET leaf == accounts0[a].heap[1].elems[i]
                    IN  accounts[a].heap[1].elems[i] =
                            Leaf(leaf.lid, Chained(migrations, 1, leaf.val))
              /\ Cardinality({p \in At("Migrate") : PassOf(p) = a}) =
                    Len(accounts0[a].heap[1].elems) * Len(migrations)
    /\ pc = "panic" => (log[Len(log)].e = "Commit" /\ log[Len(log)].err)
    /\ pc = "done" => (log[Len(log)].e = "Commit" /\ ~log[Len(log)].err)

\* A finished, committed run in which the first migration failed for the
\* first leaf of an array, the second migration then replaced that leaf, and
\* the first migration replaced the second leaf.
C6_Witness ==
    /\ pc = "done" /\ reporter
    /\ \E p \in Failing :
          /\ log[p].m = 1
          /\ log[p + 1].e = "Error"
          /\ log[p + 2].e = "Migrate" /\ log[p + 2].out.o = "value"
          /\ \E q \in Replacing :
                q > p /\ log[q].m = 1 /\ log[q].lid # log[p].lid
                /\ PassOf(q) = PassOf(p)

\* --------------------------------------------------------------------- C7
\* The addresses NextAddress has returned so far, in order.
RECURSIVE YieldedUpTo(_)
YieldedUpTo(n) ==
    IF n = 0 THEN <<>>
    ELSE IF log[n].e = "NextAddress"
         THEN Append(YieldedUpTo(n - 1), log[n].address)
         ELSE YieldedUpTo(n - 1)

Yielded == YieldedUpTo(Len(log))

IsPrefix(q, r) == Len(q) <= Len(r) /\ q = SubSeq(r, 1, Len(q))

\* C7.  If the iterator yields finitely many non-zero addresses and then the
\* zero address, Migrate terminates having processed each yielded address
\* once, in the order yielded: NextAddress is called until its first zero
\* address and not after it, the passes over the accounts are the non-zero
\* addresses in the order yielded, and once the loop is over every one of
\* them has had its pass and the commit is attempted exactly once.
C7_SentinelTermination ==
    /\ IsPrefix(Yielded, Append(iterator0, ZeroAddress))
    /\ IsPrefix(Passes, iterator0)
    /\ Len(Yielded) - Len(Passes) \in {0, 1}
    /\ pc \in {"commit", "done", "panic"} =>
          /\ Yielded = Append(iterator0, ZeroAddress)
          /\ Passes = iterator0
    /\ pc \in {"done", "panic"} => Cardinality(At("Commit")) = 1
    /\ pc \in {"next", "migrate", "commit"} => At("Commit") = {}

\* A finished run over two addresses yielded in descending order.
C7_Witness ==
    /\ pc = "done"
    /\ Len(iterator0) = 2 /\ iterator0[1] > iterator0[2]
    /\ Passes = iterator0
    /\ \E a \in Range(iterator0) : accounts[a] # accounts0[a]

\* --------------------------------------------------------------------- C8
\* The log positions at which a container element, a field, a dictionary
\* entry or a stored value is written.
Writes ==
    {p \in 1..Len(log) :
        log[p].e \in {"ArraySet", "SetMember", "RemoveKey", "SetKey",
                      "StorageWrite"}}

\* C8.  Commit is called exactly once per Migrate, after the last account
\* has been processed and never inside the loop: a commit is the last thing
\* that happens, it comes after NextAddress returned the zero address and
\* after the pass over every yielded address, every write of the run
\* precedes it, and a completed Migrate has committed once.
C8_CommitOnceAfterAll ==
    /\ Cardinality(At("Commit")) <= 1
    /\ \A c \in At("Commit") :
          /\ c = Len(log)
          /\ \E z \in At("NextAddress") : z < c /\ log[z].address = ZeroAddress
          /\ Passes = iterator0
          /\ \A p \in Writes \cup At("Account") \cup At("Migrate") : p < c
    /\ pc \in {"done", "panic"} <=> At("Commit") # {}

\* A committed run with two passes, both of which wrote to their account.
C8_Witness ==
    /\ pc = "done"
    /\ Len(Passes) = 2
    /\ \A a \in Range(Passes) : \E p \in Writes : PassOf(p) = a
    /\ log[Len(log)] = [e |-> "Commit", err |-> FALSE]

\* --------------------------------------------------------------------- C9
\* C9.  A failure of the commit aborts Migrate with that error: the step
\* that commits leaves every account as the passes made it (no rollback),
\* ends in the aborted state exactly when the commit returned an error, and
\* nothing happens after an aborted or a completed run (no retry).
C9_CommitFailureAborts ==
    [][/\ pc \notin {"panic", "done"}
       /\ pc = "commit" =>
             /\ accounts' = accounts
             /\ Len(log') = Len(log) + 1
             /\ log'[Len(log')].e = "Commit"
             /\ pc' = IF log'[Len(log')].err THEN "panic" ELSE "done"]_vars

\* The commit failed after a pass that changed an account: the run is aborted
\* and the change is still there.
C9_Witness ==
    /\ pc = "panic"
    /\ log[Len(log)] = [e |-> "Commit", err |-> TRUE]
    /\ Cardinality(At("Commit")) = 1
    /\ \E a \in Range(Passes) : accounts[a] # accounts0[a]

\* -------------------------------------------------------------------- C10
\* Some([TypeValue(t)]) stored at storage/"foo".
StoredAt(t) ==
    [heap |-> <<ArrayValue(<<Leaf(1, TypeValue(t))>>), SomeValue(Ref(1))>>,
     slots |-> <<Slot("storage", "foo", Ref(2))>>]

FullyEntitledAccountReference ==
    [k |-> "Reference",
     authorization |->
        [a |-> "EntitlementSet",
         entitlements |-> <<"Storage", "Contracts", "Keys", "Inbox",
                            "Capabilities">>,
         setKind |-> "Conjunction"],
     referencedType |-> [k |-> "Primitive", p |-> "Account"],
     ptr |-> "new"]

\* C10.  Migrating Some([TypeValue(AuthAccount)]) stored at storage/"foo"
\* with the static-type migration alone leaves the same Some holding the
\* same array of one element, that element now being the TypeValue of the
\* reference to Account with the full account entitlements, and calls
\* Migrated exactly once, with the address, "storage", "foo" and the
\* migration's name.
C10_EndToEnd ==
    \A a \in Range(Passes) :
        (/\ pc \in {"next", "commit", "done"}
         /\ migrations = <<StaticTypeMigration>>
         /\ accounts0[a] = StoredAt(PrimitiveStaticType("AuthAccount")))
        => /\ accounts[a].slots = accounts0[a].slots
           /\ Len(accounts[a].heap) = 2
           /\ accounts[a].heap[2] = SomeValue(Ref(1))
           /\ accounts[a].heap[1].kind = "array"
           /\ Len(accounts[a].heap[1].elems) = 1
           /\ LET element == accounts[a].heap[1].elems[1]
              IN  /\ element.kind = "leaf" /\ element.lid = 1
                  /\ element.val.vk = "TypeValue"
                  /\ Equal(element.val.type, FullyEntitledAccountReference)
                  /\ Equal(FullyEntitledAccountReference, element.val.type)
           /\ reporter =>
                 \E q \in At("Migrated") :
                     /\ log[q] = [e |-> "Migrated", address |-> a,
                                  domain |-> "storage", key |-> "foo",
                                  migration |-> "StaticTypeMigration"]
                     /\ \A r \in At("Migrated") : log[r].address = a => r = q

\* A finished run of the static-type migration over such an account, with a
\* reporter.
C10_Witness ==
    /\ pc = "done" /\ reporter
    /\ migrations = <<StaticTypeMigration>>
    /\ \E a \in Range(Passes) :
          /\ accounts0[a] = StoredAt(PrimitiveStaticType("AuthAccount"))
          /\ accounts[a] # accounts0[a]

\* ------------------------------------------------- reading a type run
\* The content of the one leaf stored before the run, the static type it
\* holds, and the migration given (twice) to the run.
StoredValue == accounts0[1].slots[1].value.val

StoredType == HeldType(StoredValue)

TheMigration == migrations[1]

\* m.maybeConvertStaticType(t)
Convert(t) == maybeConvertStaticType(TheMigration, t)

\* A conversion that returned a type: neither nil nor a panic.
IsType(t) == t # NoType /\ t # PanicType

\* The positions of the log at which the i-th migration of the list was
\* called.
MigrateCalls(i) == {p \in At("Migrate") : log[p].m = i}

\* t is, or holds at any depth the conversion descends to, an intersection
\* type of two or more interface types.
RECURSIVE HoldsForcedIntersection(_)
HoldsForcedIntersection(t) ==
    CASE t.k \in {"Optional", "VariableSized", "ConstantSized"} ->
            HoldsForcedIntersection(t.type)
      [] t.k = "Dictionary" ->
            \/ HoldsForcedIntersection(t.keyType)
            \/ HoldsForcedIntersection(t.valueType)
      [] t.k = "Capability" -> HoldsForcedIntersection(t.borrowType)
      [] t.k = "Reference" -> HoldsForcedIntersection(t.referencedType)
      [] t.k = "Intersection" ->
            \/ Len(t.types) >= 2
            \/ HoldsForcedIntersection(t.legacyType)
      [] OTHER -> FALSE

\* -------------------------------------------------------------------- C11
\* C11, as stated, for the migration with no converter configured.  If the
\* conversion of a static type t returns a type u, the conversion of u
\* returns nil.
C11_Idempotence ==
    (TheMigration = StaticTypeMigration /\ IsType(Convert(StoredType)))
    => Convert(Convert(StoredType)) = NoType

\* The second conversion, of the type u that the first one returned.
SecondConversionIsEqual(u, v) ==
    /\ v # PanicType
    /\ (v = NoType) <=> ~HoldsForcedIntersection(u)
    /\ v # NoType => v = u /\ Equal(u, v) /\ Equal(v, u)

\* C11, amended.  With no converter configured, if the conversion of a
\* static type t returns a type u, the conversion of u returns nil unless u
\* holds an intersection of two or more interface types, and then it
\* returns a type that is Equal to u, with the same members and legacy type:
\* converting twice yields a type Equal to the result of converting once.
C11_IdempotentUpToEqual ==
    (TheMigration = StaticTypeMigration /\ IsType(Convert(StoredType)))
    => SecondConversionIsEqual(Convert(StoredType),
                               Convert(Convert(StoredType)))

\* Both migrations of the run replaced the TypeValue: the second was given
\* the type the first returned and returned a type again.
C11_Witness ==
    /\ pc = "done"
    /\ TheMigration = StaticTypeMigration
    /\ StoredValue.vk = "TypeValue"
    /\ \E p \in MigrateCalls(1), q \in MigrateCalls(2) :
          /\ log[p].out.o = "value" /\ log[q].out.o = "value"
          /\ log[q].val = log[p].out.val
          /\ log[p].out.val = TypeValue(Convert(StoredType))
          /\ log[q].out.val = TypeValue(Convert(Convert(StoredType)))

\* A second witness: a legacy type was replaced and the second migration
\* found nothing more to do.
C11_SettledWitness ==
    /\ pc = "done"
    /\ TheMigration = StaticTypeMigration
    /\ \E p \in MigrateCalls(1), q \in MigrateCalls(2) :
          /\ log[p].out.o = "value" /\ log[q].out = NoReplacement
          /\ log[q].val = log[p].out.val

\* -------------------------------------------------------------------- C12
\* No interface type and no legacy type of the intersection type t is
\* changed by the conversion.
NothingChanges(t) ==
    /\ \A i \in 1..Len(t.types) : Convert(t.types[i]) = NoType
    /\ t.legacyType # NoType => Convert(t.legacyType) = NoType

\* c is an intersection type with the interface types of t in the same
\* order and the legacy type of t, and is Equal to t.
SameIntersection(t, c) ==
    /\ c.k = "Intersection"
    /\ c.types = t.types
    /\ c.legacyType = t.legacyType
    /\ Equal(t, c) /\ Equal(c, t)

\* C12.  The conversion of an intersection type of two or more interface
\* types returns an intersection type (unless it panics) even when no
\* interface type and no legacy type changed, and then the result has the
\* same interface types in the same order and the same legacy type and is
\* Equal to the original.  For fewer than two interface types the conversion
\* returns nil exactly when nothing changed.
C12_IntersectionForcing ==
    StoredType.k = "Intersection"
    => /\ (Len(StoredType.types) >= 2 /\ Convert(StoredType) # PanicType)
          => /\ Convert(StoredType).k = "Intersection"
             /\ Len(Convert(StoredType).types) = Len(StoredType.types)
       /\ (Len(StoredType.types) >= 2 /\ NothingChanges(StoredType))
          => SameIntersection(StoredType, Convert(StoredType))
       /\ Len(StoredType.types) < 2
          => (Convert(StoredType) = NoType <=> NothingChanges(StoredType))

\* A run in which the migration replaced a TypeValue of an intersection of
\* two interface types that it left as they were, and reported it.
C12_Witness ==
    /\ pc = "done"
    /\ StoredValue.vk = "TypeValue"
    /\ StoredType.k = "Intersection"
    /\ Len(StoredType.types) >= 2
    /\ NothingChanges(StoredType)
    /\ \E p \in MigrateCalls(1) :
          /\ log[p].out = Replacement(TypeValue(Convert(StoredType)))
          /\ p + 1 \in At("Migrated")
    /\ accounts[1].slots[1].value.val.vk = "TypeValue"
    /\ SameIntersection(StoredType, accounts[1].slots[1].value.val.type)

\* -------------------------------------------------------------------- C13
\* The log without the reporter's notifications: the Migrate calls, the
\* container and storage writes, the passes and the commit.
Silent(q) == SelectSeq(q, LAMBDA ev : ev.e \notin {"Migrated", "Error"})

\* The pass over the current account as the run with the reporter r would
\* make it from the current storage.
PassWith(r) ==
    ForEachValue(
        [slots |-> accounts[address].slots,
         st |-> [heap |-> accounts[address].heap,
                 log |-> Append(log, [e |-> "Account", address |-> address]),
                 panicked |-> FALSE]],
        1, address,
        [migrations |-> migrations, reporter |-> r])

SameBut(other) ==
    /\ Silent(other.st.log) = Silent(log')
    /\ other.slots = accounts'[address].slots
    /\ other.st.heap = accounts'[address].heap
    /\ other.st.panicked = (pc' = "panic")

\* C13.  Every pass over an account makes the same Migrate calls with the
\* same results, the same container and storage writes and leaves the same
\* storage as the pass of the run that differs in the reporter only (present
\* instead of nil, or nil instead of present) makes from the same storage;
\* the steps between the passes do not read the reporter.
C13_ReporterObservational ==
    [][pc = "migrate" => SameBut(PassWith(~reporter))]_vars

\* A finished run without a reporter that replaced a value: the log holds a
\* Migrate call that returned a replacement and no notification.
C13_Witness ==
    /\ pc = "done"
    /\ ~reporter
    /\ \E p \in At("Migrate") : log[p].out.o = "value"
    /\ At("Migrated") = {}
    /\ \E a \in Range(Passes) : accounts[a] # accounts0[a]

\* -------------------------------------------------------------------- C14
\* The two authorizations are of the same variant and, for entitlement sets,
\* of the same kind with the same entitlements in any order, for
\* entitlement maps, of the same type ID.
SameAuthorization(e, auth) ==
    /\ e.a = auth.a
    /\ e.a = "EntitlementSet"
          => /\ e.setKind = auth.setKind
             /\ Range(e.entitlements) = Range(auth.entitlements)
    /\ e.a = "EntitlementMap" => e.typeID = auth.typeID

\* C14.  Authorization.Equal holds exactly for two Unauthorized, two
\* entitlement sets of the same kind with the same entitlements in any
\* order, and two entitlement maps of the same type ID; so a reference type
\* with an entitlement-set authorization is not Equal, in either direction
\* and also inside a capability type, to the unauthorized reference type to
\* the same referenced type.
C14_AuthorizationEquality ==
    /\ AuthorizationEqual(Left.authorization, Right.authorization)
       <=> SameAuthorization(Left.authorization, Right.authorization)
    /\ Equal(Left, Right)
       <=> /\ SameAuthorization(Left.authorization, Right.authorization)
           /\ Left.referencedType = Right.referencedType
    /\ (/\ Left.authorization.a = "EntitlementSet"
        /\ Right.authorization = Unauthorized
        /\ Left.referencedType = Right.referencedType)
       => /\ ~Equal(Left, Right)
          /\ ~Equal(Right, Left)
          /\ ~Equal(CapabilityStaticType(Left), CapabilityStaticType(Right))
    /\ \A p \in At("Equal") : log[p].result = Equal(Left, Right)

\* Two entitlement sets of two entitlements given in different orders were
\* compared and found equal.
C14_Witness ==
    /\ pc = "done"
    /\ Left.authorization.a = "EntitlementSet"
    /\ Right.authorization.a = "EntitlementSet"
    /\ Len(Left.authorization.entitlements) = 2
    /\ Left.authorization.entitlements # Right.authorization.entitlements
    /\ \E p \in At("Equal") : log[p].result

\* A reference type with the authorization auth(X) was compared with the
\* unauthorized reference type to the same referenced type and found
\* different.
C14_UpcastWitness ==
    /\ pc = "done"
    /\ Left.authorization.a = "EntitlementSet"
    /\ Left.authorization.entitlements # <<>>
    /\ Right.authorization = Unauthorized
    /\ Left.referencedType = Right.referencedType
    /\ \E p \in At("Equal") : ~log[p].result

\* -------------------------------------------------------------------- C15
\* What the claim gives as the conversion of the reference type r when its
\* referenced type converts to c.  The canonical types are the two package
\* variables themselves.
ReferenceConversion(r, c) ==
    IF c = PanicType THEN PanicType
    ELSE IF c = NoType THEN NoType
    ELSE IF c = authAccountReferenceType \/ c = unauthorizedAccountReferenceType
         THEN c
    ELSE ReferenceStaticType(r.authorization, c)

C15_RebuiltWitness ==
    /\ pc = "done"
    /\ StoredValue.vk = "TypeValue"
    /\ StoredType.k = "Reference"
    /\ StoredType.authorization # Unauthorized
    /\ \E p \in MigrateCalls(1) :
          /\ log[p].out.o = "value"
          /\ log[p].out.val.type.k = "Reference"
          /\ log[p].out.val.type.authorization = StoredType.authorization
          /\ log[p].out.val.type.referencedType
                = Convert(StoredType.referencedType)

\* A composite converter that returns a reference to Account of its own,
\* Equal to the canonical type but another object, is not collapsed: the
\* run stored a reference to that reference.
C15_OwnReferenceKept ==
    /\ pc = "done"
    /\ StoredValue.vk = "TypeValue"
    /\ StoredType.k = "Reference"
    /\ Convert(StoredType.referencedType) # unauthorizedAccountReferenceType
    /\ IsType(Convert(StoredType.referencedType))
    /\ Equal(Convert(StoredType.referencedType),
             unauthorizedAccountReferenceType)
    /\ \E p \in MigrateCalls(1) :
          /\ log[p].out.o = "value"
          /\ log[p].out.val.type.referencedType.k = "Reference"

\* -------------------------------------------------------------------- C16
WrapperKinds ==
    {"VariableSized", "ConstantSized", "Optional", "Capability", "Dictionary"}

\* The wrapper of the variant (and size) of t that holds the type c.
Rewrapped(t, c) ==
    CASE t.k = "VariableSized" -> VariableSizedStaticType(c)
      [] t.k = "ConstantSized" -> ConstantSizedStaticType(c, t.size)
      [] t.k = "Optional" -> OptionalStaticType(c)
      [] t.k = "Capability" -> CapabilityStaticType(c)

\* c where the conversion returned a type, the original held type where it
\* returned nil.
OrOriginal(c, held) == IF c # NoType THEN c ELSE held

\* What the claim gives as the conversion of a wrapper of one held type
\* that converts to c: nil for no held type at all.
SingleConversion(t, held, c) ==
    IF held = NoType \/ c = NoType THEN NoType ELSE Rewrapped(t, c)

\* The same for a dictionary type, its key type converting to ck and its
\* value type to cv.
DictionaryConversion(t, ck, cv) ==
    IF ck = NoType /\ cv = NoType THEN NoType
    ELSE DictionaryStaticType(OrOriginal(ck, t.keyType),
                              OrOriginal(cv, t.valueType))

HeldOf(t) == IF t.k = "Capability" THEN t.borrowType ELSE t.type

\* No held type of the wrapper t has a conversion that panics.
HeldTypesConvert(t) ==
    IF t.k = "Dictionary"
    THEN Convert(t.keyType) # PanicType /\ Convert(t.valueType) # PanicType
    ELSE HeldOf(t) = NoType \/ Convert(HeldOf(t)) # PanicType

WrapperConversion(t) ==
    IF t.k = "Dictionary"
    THEN DictionaryConversion(t, Convert(t.keyType), Convert(t.valueType))
    ELSE SingleConversion(t, HeldOf(t), Convert(HeldOf(t)))

\* C16, as stated.  The conversion of an array, optional, capability or
\* dictionary type is nil exactly when every held type converts to nil, and
\* otherwise the wrapper of the same variant and size with each held type
\* replaced by its conversion where that is not nil; key type and value
\* type of a dictionary independently.
C16_WrapperConversion ==
    (StoredType.k \in WrapperKinds /\ HeldTypesConvert(StoredType))
    => Convert(StoredType) = WrapperConversion(StoredType)

\* The same for the wrappers that hold a type: every one but the capability
\* type without a borrow type.
WrapperConversionOfHeldTypes ==
    (/\ StoredType.k \in WrapperKinds
     /\ StoredType # CapabilityStaticType(NoType)
     /\ HeldTypesConvert(StoredType))
    => Convert(StoredType) = WrapperConversion(StoredType)

\* A run that replaced the TypeValue of a dictionary type of which only
\* the key type converts.
KeyTypeOnlyConverted ==
    /\ pc = "done"
    /\ StoredValue.vk = "TypeValue"
    /\ StoredType.k = "Dictionary"
    /\ Convert(StoredType.valueType) = NoType
    /\ \E p \in MigrateCalls(1) :
          /\ log[p].out.o = "value"
          /\ log[p].out.val.type.k = "Dictionary"
          /\ log[p].out.val.type.valueType = StoredType.valueType
          /\ log[p].out.val.type.keyType # StoredType.keyType

\* The run over the TypeValue of the capability type without a borrow type
\* ended in a panic.
NoBorrowTypePanics ==
    /\ pc = "panic"
    /\ StoredValue = TypeValue(CapabilityStaticType(NoType))

\* -------------------------------------------------------------------- C17
\* The conversion of some interface type of the intersection type t returns
\* a type that is not an interface type.
ConverterMisuse(t) ==
    \E i \in 1..Len(t.types) :
        /\ IsType(Convert(t.types[i]))
        /\ Convert(t.types[i]).k # "Interface"

\* Every intersection type that t is or holds has interface types only as
\* its interface types.
RECURSIVE OnlyInterfaces(_)
OnlyInterfaces(t) ==
    CASE t.k \in {"Optional", "VariableSized", "ConstantSized"} ->
            OnlyInterfaces(t.type)
      [] t.k = "Dictionary" ->
            OnlyInterfaces(t.keyType) /\ OnlyInterfaces(t.valueType)
      [] t.k = "Capability" -> OnlyInterfaces(t.borrowType)
      [] t.k = "Reference" -> OnlyInterfaces(t.referencedType)
      [] t.k = "Intersection" ->
            /\ \A i \in 1..Len(t.types) : t.types[i].k = "Interface"
            /\ OnlyInterfaces(t.legacyType)
      [] OTHER -> TRUE

\* C17.  If the conversion of an interface type of an intersection type
\* returns a type that is not an interface type, the conversion of the
\* intersection type panics: it returns no type, and the run ends in the
\* panic with the stored value as it was.  No conversion returns an
\* intersection type with a type other than an interface type among its
\* interface types.
C17_ConverterMisuseIsFatal ==
    /\ (StoredType.k = "Intersection" /\ ConverterMisuse(StoredType))
       => /\ Convert(StoredType) = PanicType
          /\ \A p \in MigrateCalls(1) : log[p].out = MigratePanic
          /\ pc \in {"next", "migrate", "panic"}
          /\ accounts = accounts0
    /\ IsType(Convert(StoredType)) => OnlyInterfaces(Convert(StoredType))

\* A run over the TypeValue of an intersection type one of whose interface
\* types the converter replaces by a composite type: Migrate panicked.
C17_Witness ==
    /\ pc = "panic"
    /\ StoredValue.vk = "TypeValue"
    /\ StoredType.k = "Intersection"
    /\ ConverterMisuse(StoredType)
    /\ \E p \in MigrateCalls(1) : log[p].out = MigratePanic
    /\ MigrateCalls(2) = {}

\* -------------------------------------------------------------------- C18
\* The interface types of the sequence are pairwise different.
PairwiseDistinct(types) ==
    \A i, j \in 1..Len(types) : i # j => ~Equal(types[i], types[j])

\* C18, as stated.  For an intersection type of pairwise different interface
\* types and a configured interface converter, the intersection type that
\* the conversion returns has as many interface types, pairwise different.
C18_NoDuplicates ==
    (/\ StoredType.k = "Intersection"
     /\ PairwiseDistinct(StoredType.types)
     /\ TheMigration.interfaceTypeConverter.configured
     /\ IsType(Convert(StoredType)))
    => /\ Len(Convert(StoredType).types) = Len(StoredType.types)
       /\ PairwiseDistinct(Convert(StoredType).types)

\* What the loop makes of the interface type at position i.
Replaced(t, i) == OrOriginal(Convert(t.types[i]), t.types[i])

\* What holds: the result has as many interface types as the original, the
\* i-th being what the converter makes of the i-th, so they are pairwise
\* different exactly when the converter sends no two of them to the same
\* interface type.
MembersReplacedInPlace ==
    (StoredType.k = "Intersection" /\ IsType(Convert(StoredType)))
    => /\ Len(Convert(StoredType).types) = Len(StoredType.types)
       /\ \A i \in 1..Len(StoredType.types) :
             Convert(StoredType).types[i] = Replaced(StoredType, i)

\* A run that stored the TypeValue of an intersection type with the same
\* interface type twice.
DuplicateStored ==
    /\ pc = "done"
    /\ StoredValue.vk = "TypeValue"
    /\ StoredType.k = "Intersection"
    /\ PairwiseDistinct(StoredType.types)
    /\ accounts[1].slots[1].value.val.type.k = "Intersection"
    /\ ~PairwiseDistinct(accounts[1].slots[1].value.val.type.types)

\* -------------------------------------------------------------------- C19
\* The fixed replacements of the legacy nested kinds.
SubKindReplacement ==
    [p \in LegacyPrimitives \ {"PublicAccount", "AuthAccount"} |->
        CASE p = "AuthAccountCapabilities" ->
                PrimitiveStaticType("Account_Capabilities")
          [] p = "PublicAccountCapabilities" ->
                PrimitiveStaticType("Account_Capabilities")
          [] p = "AuthAccountAccountCapabilities" ->
                PrimitiveStaticType("Account_AccountCapabilities")
          [] p = "AuthAccountStorageCapabilities" ->
                PrimitiveStaticType("Account_StorageCapabilities")
          [] p = "AuthAccountContracts" ->
                PrimitiveStaticType("Account_Contracts")
          [] p = "PublicAccountContracts" ->
                PrimitiveStaticType("Account_Contracts")
          [] p = "AuthAccountKeys" -> PrimitiveStaticType("Account_Keys")
          [] p = "PublicAccountKeys" -> PrimitiveStaticType("Account_Keys")
          [] p = "AuthAccountInbox" -> PrimitiveStaticType("Account_Inbox")
          [] p = "AccountKey" -> AccountKeyStaticType]

\* c is the canonical reference to Account with the authorization auth.
IsAccountReference(c, auth) ==
    /\ c.k = "Reference"
    /\ c \in {authAccountReferenceType, unauthorizedAccountReferenceType}
    /\ AuthorizationEqual(c.authorization, auth)
    /\ AuthorizationEqual(auth, c.authorization)
    /\ c.referencedType = PrimitiveStaticType("Account")

\* C19.  The conversion of the primitive type PublicAccount is the canonical
\* unauthorized reference to Account, of AuthAccount the canonical reference
\* to Account with the conjunction of Storage, Contracts, Keys, Inbox and
\* Capabilities, of each legacy nested kind its fixed replacement, and of
\* every other primitive type nil; and the conversion of each replacement
\* is nil.
C19_PrimitiveTable ==
    StoredType.k = "Primitive"
    => /\ StoredType.p = "PublicAccount"
          => /\ Convert(StoredType) = unauthorizedAccountReferenceType
             /\ IsAccountReference(Convert(StoredType), Unauthorized)
       /\ StoredType.p = "AuthAccount"
          => /\ Convert(StoredType) = authAccountReferenceType
             /\ IsAccountReference(
                    Convert(StoredType),
                    EntitlementSetAuthorization(
                        <<"Storage", "Contracts", "Keys", "Inbox",
                          "Capabilities">>, "Conjunction"))
       /\ StoredType.p \in DOMAIN SubKindReplacement
          => Convert(StoredType) = SubKindReplacement[StoredType.p]
       /\ StoredType.p \notin LegacyPrimitives => Convert(StoredType) = NoType
       /\ IsType(Convert(StoredType)) => Convert(Convert(StoredType)) = NoType

\* A run that replaced the TypeValue of a legacy nested kind by the
\* TypeValue of its replacement, which the second migration left alone.
C19_Witness ==
    /\ pc = "done"
    /\ StoredValue.vk = "TypeValue"
    /\ StoredType.k = "Primitive"
    /\ StoredType.p \in DOMAIN SubKindReplacement
    /\ \E p \in MigrateCalls(1), q \in MigrateCalls(2) :
          /\ log[p].out
                = Replacement(TypeValue(SubKindReplacement[StoredType.p]))
          /\ log[q].out = NoReplacement
    /\ accounts[1].slots[1].value.val
          = TypeValue(SubKindReplacement[StoredType.p])

\* -------------------------------------------------------------------- C20
ControllerKinds ==
    {"AccountCapabilityController", "StorageCapabilityController"}

\* The controller val with the borrow type c.
WithBorrowType(val, c) ==
    IF val.vk = "AccountCapabilityController"
    THEN AccountCapabilityControllerValue(c, val.capabilityID)
    ELSE StorageCapabilityControllerValue(c, val.capabilityID, val.targetPath)

\* C20.  For a capability controller whose borrow type converts to a type,
\* Migrate returns the controller with the converted borrow type, and the
\* same capability ID and target path, if that type is a reference type,
\* and panics, returning neither a replacement nor an error, if it is any
\* other type (taken here from the stored types).  The conversion of a
\* reference borrow type is nil, a reference type, or a panic.
C20_ControllerBorrowTypes ==
    /\ StoredValue.vk \in ControllerKinds
       => /\ \/ Convert(StoredType) \in {NoType, PanicType}
             \/ Convert(StoredType).k = "Reference"
          /\ IsType(Convert(StoredType))
             => /\ StaticTypeMigrate(TheMigration, StoredValue)
                   = Replacement(WithBorrowType(StoredValue,
                                                Convert(StoredType)))
                /\ \A p \in MigrateCalls(1) :
                      /\ log[p].out.o = "value"
                      /\ log[p].out.val.borrowType.k = "Reference"
          /\ Convert(StoredType) = NoType
             => StaticTypeMigrate(TheMigration, StoredValue) = NoReplacement
    /\ StoredValue.vk = "TypeValue"
       => \A vk \in ControllerKinds :
             LET controller ==
                     IF vk = "AccountCapabilityController"
                     THEN AccountCapabilityControllerValue(
                              unauthorizedAccountReferenceType, 1)
                     ELSE StorageCapabilityControllerValue(
                              unauthorizedAccountReferenceType, 1, "/storage/t")
             IN  MigrateConverted(controller, StoredType)
                 = IF StoredType.k = "Reference"
                   THEN Replacement(WithBorrowType(controller, StoredType))
                   ELSE MigratePanic

\* A run that replaced a capability controller by the controller with the
\* converted reference borrow type.
C20_Witness ==
    /\ pc = "done"
    /\ StoredValue.vk \in ControllerKinds
    /\ IsType(Convert(StoredType))
    /\ \E p \in MigrateCalls(1) :
          /\ log[p].out.o = "value"
          /\ log[p].out.val.vk = StoredValue.vk
          /\ log[p].out.val.capabilityID = StoredValue.capabilityID
          /\ log[p].out.val.borrowType = Convert(StoredType)
          /\ log[p].out.val.borrowType # StoredType
          /\ log[p].out.val.borrowType.k = "Reference"

\* -------------------------------------------------------------------- C21
TypeShapedKinds ==
    {"TypeValue", "Capability", "PathCapability", "PathLink",
     "AccountCapabilityController", "StorageCapabilityController"}

\* The fields of the value other than the static type it holds.
OtherFields(val) ==
    [f \in DOMAIN val \ {"type", "borrowType"} |-> val[f]]

\* out is a replacement of the kind of val that holds the type c and
\* otherwise has the fields of val.
SameButType(val, out, c) ==
    /\ out.o = "value"
    /\ out.val.vk = val.vk
    /\ HeldType(out.val) = c
    /\ OtherFields(out.val) = OtherFields(val)

\* C21.  StaticTypeMigration.Migrate returns no replacement and no error
\* for a leaf that holds no static type and for one whose type converts to
\* nil; when the type converts to a type it returns a value of the same
\* kind that holds the converted type and has the other fields of the
\* input; and the value it was given is the stored one, as it was.
C21_MigrateFrame ==
    /\ StaticTypeMigrate(TheMigration, StoredValue) # MigrateError
    /\ StoredValue.vk \notin TypeShapedKinds
       => /\ StaticTypeMigrate(TheMigration, StoredValue) = NoReplacement
          /\ accounts = accounts0
    /\ StoredValue.vk \in TypeShapedKinds
       => /\ Convert(StoredType) = NoType
             => StaticTypeMigrate(TheMigration, StoredValue) = NoReplacement
          /\ IsType(Convert(StoredType))
             => SameButType(StoredValue,
                            StaticTypeMigrate(TheMigration, StoredValue),
                            Convert(StoredType))
    /\ \A p \in MigrateCalls(1) :
          /\ log[p].val = StoredValue
          /\ log[p].out = StaticTypeMigrate(TheMigration, StoredValue)
          /\ accounts0[1].slots[1].value.val = StoredValue

\* A run that replaced a capability by the capability with the converted
\* borrow type and the same ID and address.
C21_Witness ==
    /\ pc = "done"
    /\ StoredValue.vk = "Capability"
    /\ \E p \in MigrateCalls(1) :
          /\ log[p].out.o = "value"
          /\ log[p].out.val.id = StoredValue.id
          /\ log[p].out.val.address = StoredValue.address
          /\ log[p].out.val.borrowType = Convert(StoredType)
          /\ log[p].out.val.borrowType # StoredType

\* A run over a leaf that holds no static type: both calls returned no
\* replacement.
C21_OtherLeafWitness ==
    /\ pc = "done"
    /\ StoredValue.vk \notin TypeShapedKinds
    /\ \E p \in MigrateCalls(1), q \in MigrateCalls(2) :
          log[p].out = NoReplacement /\ log[q].out = NoReplacement

\* -------------------------------------------------------------------- C22
\* The position of the log at which the traversal of a dictionary starts
\* with the snapshotted key: the first migration is called for the key.
RoundStart(key) ==
    CHOOSE p \in At("Migrate") : log[p].lid = key.lid /\ log[p].m = 1

\* The last position of the log that belongs to the i-th snapshotted key of
\* dictionary d.
RoundEnd(d, i) ==
    IF i < Len(Heap0[d].entries)
    THEN RoundStart(Heap0[d].entries[i + 1].key) - 1
    ELSE Len(log)

IsWriteTo(ev, d) == ev.e \in {"RemoveKey", "SetKey"} /\ ev.id = d

\* A write without the identity of the optional that SetKey was given.
Plain(ev) ==
    IF ev.e = "SetKey"
    THEN [e |-> "SetKey", id |-> ev.id, key |-> ev.key, value |-> ev.value]
    ELSE ev

PlainAll(q) == [p \in 1..Len(q) |-> Plain(q[p])]

\* The writes to dictionary d while its i-th snapshotted key is processed.
RoundWrites(d, i) ==
    PlainAll(SelectSeq(SubSeq(log, RoundStart(Heap0[d].entries[i].key),
                              RoundEnd(d, i)),
                       LAMBDA ev : IsWriteTo(ev, d)))

\* The value found under the i-th snapshotted key of d: the container
\* stored there before the run, or the leaf that the migrations are called
\* for after the key.
ExistingValue(d, i) ==
    IF Heap0[d].entries[i].value.kind = "ref" THEN Heap0[d].entries[i].value
    ELSE LET p == CHOOSE p \in At("Migrate") :
                     /\ p > RoundStart(Heap0[d].entries[i].key)
                     /\ p <= RoundEnd(d, i)
                     /\ log[p].lid # Heap0[d].entries[i].key.lid
                     /\ log[p].m = 1
         IN  Leaf(log[p].lid, log[p].val)

\* The optional that the traversal of the container found under the i-th
\* key built in place of it: the value of the insertion, provided it is an
\* optional allocated during the pass (Nil otherwise).
RewrappedValue(d, i) ==
    LET sets == {p \in At("SetKey") :
                    /\ p > RoundStart(Heap0[d].entries[i].key)
                    /\ p <= RoundEnd(d, i)
                    /\ log[p].id = d
                    /\ log[p].value.kind = "ref"
                    /\ log[p].value.id > Len(Heap0)
                    /\ HeapNow[log[p].value.id].kind = "some"}
    IN  IF sets = {} THEN Nil ELSE log[CHOOSE p \in sets : TRUE].value

\* The migrated form of the value found under the i-th key, Nil if the
\* traversal of the value gave no replacement.
MigratedValue(d, i, existingValue) ==
    IF existingValue.kind = "leaf"
    THEN IF Replaces(migrations, 1, existingValue.val)
         THEN Leaf(existingValue.lid,
                   Chained(migrations, 1, existingValue.val))
         ELSE Nil
    ELSE IF NotReplaced(existingValue) THEN Nil
    ELSE RewrappedValue(d, i)

\* The writes that the protocol prescribes for the key existingKey found
\* with the value existingValue, of which newValue is the migrated form.
Protocol(d, existingKey, existingValue, newValue) ==
    LET keyReplaced == Replaces(migrations, 1, existingKey.val)
        keyToSet == IF keyReplaced
                    THEN Chained(migrations, 1, existingKey.val)
                    ELSE existingKey.val
        valueToSet == IF newValue # Nil THEN newValue ELSE existingValue
        removal == IF keyReplaced
                   THEN <<[e |-> "RemoveKey", id |-> d,
                           key |-> existingKey.val]>>
                   ELSE <<>>
    IN  IF ~keyReplaced /\ newValue = Nil THEN <<>>
        ELSE Append(removal, [e |-> "SetKey", id |-> d, key |-> keyToSet,
                              value |-> valueToSet])

\* The protocol for the i-th snapshotted key of d, found with existingValue.
ProtocolAt(d, i, existingValue) ==
    Protocol(d, Heap0[d].entries[i].key, existingValue,
             MigratedValue(d, i, existingValue))

\* C22.  For each snapshotted key of a dictionary: no write if neither key
\* nor value was replaced; if the key was replaced, the removal of the old
\* key and then the insertion under the new key; if only the value was
\* replaced, the insertion under the existing key and no removal.  The
\* value inserted is the migrated value if there is one, else the value
\* found, and SetKey is given it wrapped in a new optional.
C22_WriteBackProtocol ==
    PassDone
    => \A d \in Objects0("dictionary") :
          /\ migrations = <<>>
             => \A p \in 1..Len(log) : ~IsWriteTo(log[p], d)
          /\ migrations # <<>>
             => \A i \in 1..Len(Heap0[d].entries) :
                   RoundWrites(d, i)
                   = ProtocolAt(d, i, ExistingValue(d, i))
          /\ \A p \in At("SetKey") :
                HeapNow[log[p].some] = SomeValue(log[p].value)

\* A pass over a dictionary of two entries that replaced the key of one
\* (removal, then insertion) and only the value of the other (insertion
\* alone).
C22_Witness ==
    /\ PassDone
    /\ \E d \in Objects0("dictionary") :
          /\ Len(Heap0[d].entries) = 2
          /\ migrations # <<>>
          /\ \E i, j \in 1..2 :
                /\ Len(RoundWrites(d, i)) = 2
                /\ RoundWrites(d, i)[1].e = "RemoveKey"
                /\ RoundWrites(d, i)[2].e = "SetKey"
                /\ Len(RoundWrites(d, j)) = 1
                /\ RoundWrites(d, j)[1].e = "SetKey"
                /\ RoundWrites(d, j)[1].key = Heap0[d].entries[j].key.val

\* ---------------------------------------------------------------- C23
\* The lookups of snapshotted keys that found no entry.
AbsentLookups == {p \in At("Get") : ~log[p].exist}

\* The traversal went on after lookup p: the next thing it did is to hand
\* the key it looked up to the first migration.
KeyMigratedNext(p) ==
    /\ p < Len(log)
    /\ log[p + 1].e = "Migrate"
    /\ log[p + 1].m = 1
    /\ log[p + 1].val = log[p].key

\* The run ended at lookup p: nothing was done after it, the run is in its
\* fatal state, and the dictionary is left without the key.
AbortedAt(p) ==
    /\ p = Len(log)
    /\ pc = "panic"
    /\ \A i \in 1..Len(HeapNow[log[p].id].entries) :
          HeapNow[log[p].id].entries[i].key.val # log[p].key

\* C23: a snapshotted dictionary key that is absent when its value is looked
\* up ends the whole run with a fatal error at that lookup: the key is not
\* skipped, no recoverable error is reported, and no further key or value is
\* migrated. A lookup that finds its key is followed by the migration of the
\* key.
C23_AbsentKeyIsFatal ==
    \A p \in At("Get") :
        IF log[p].exist THEN KeyMigratedNext(p) ELSE AbortedAt(p)

\* A run aborted at the lookup of the second key, after the first key was
\* migrated and written back.
C23_Witness ==
    /\ AbsentLookups # {}
    /\ pc = "panic"
    /\ At("SetKey") # {}
    /\ \E p \in At("Get") : log[p].exist
    /\ At("Error") = {}
    /\ At("Commit") = {}

\* ---------------------------------------------------------------- C24
\* The leaves that value v reaches in the account as it was before the run.
LeavesUnder(v) ==
    IF v.kind = "leaf" THEN {v}
    ELSE {l \in UNION {Children(Heap0[id]) : id \in Reach(Heap0, v)} :
             l.kind = "leaf"}

\* No Migrate call on a leaf under v returned a replacement.
NothingReplacedUnder(v) ==
    \A p \in At("Migrate") :
        (\E l \in LeavesUnder(v) : l.lid = log[p].lid) => log[p].out = NoReplacement

\* The heap objects that held a reference to container id before the run.
Holders0(id) ==
    {h \in 1..Len(Heap0) : Ref(id) \in Children(Heap0[h])}

\* Container id was not signalled as changed: nothing was written to it, it
\* is the object it was, and what held it still holds it.
NotSignalled(id) ==
    /\ \A p \in Writes : log[p].e # "StorageWrite" => log[p].id # id
    /\ HeapNow[id] = Heap0[id]
    /\ \A h \in Holders0(id) : Ref(id) \in Children(HeapNow[h])
    /\ accounts0[1].slots[1].value = Ref(id)
       => /\ accounts[1].slots = accounts0[1].slots
          /\ At("StorageWrite") = {}

\* C24: when no migration returns a replacement for any leaf of the stored
\* value, the pass reports nothing, writes to no container and not to the
\* storage, allocates nothing, and leaves the account as it was; and in any
\* pass an optional or container under which nothing was replaced is not
\* written to, is not replaced in what holds it, and is the same afterwards.
C24_NoOpPass ==
    PassDone
    => /\ NothingReplacedUnder(accounts0[1].slots[1].value)
          => /\ At("Migrated") = {}
             /\ Writes = {}
             /\ accounts = accounts0
       /\ \A id \in 1..Len(Heap0) :
             NothingReplacedUnder(Ref(id)) => NotSignalled(id)

\* A no-op pass over an optional held in a container, with migrations that
\* were called and returned nothing; and a pass that replaced a dictionary
\* key while the container stored under it was left alone.
C24_Witness ==
    /\ PassDone
    /\ NothingReplacedUnder(accounts0[1].slots[1].value)
    /\ Cardinality(At("Migrate")) >= 2
    /\ \E id \in Objects0("some") : Holders0(id) # {}

C24_PartWitness ==
    /\ PassDone
    /\ At("RemoveKey") # {}
    /\ \E id \in 1..Len(Heap0) :
          /\ Holders0(id) # {}
          /\ \A h \in Holders0(id) : Heap0[h].kind = "dictionary"
          /\ LeavesUnder(Ref(id)) # {}
          /\ NothingReplacedUnder(Ref(id))

\* ---------------------------------------------------------------- C25
\* The equality the variants are described to have: nominal for composite
\* and interface types, and for every other variant the comparison of all
\* the components, an absent component being equal to an absent one only.
RECURSIVE SameStaticType(_, _)
SameStaticType(a, b) ==
    IF a = NoType \/ b = NoType THEN a = b
    ELSE IF a.k # b.k THEN FALSE
    ELSE CASE a.k = "Composite" -> a.typeID = b.typeID
           [] a.k = "Interface" ->
                 /\ a.location = b.location
                 /\ a.qualifiedIdentifier = b.qualifiedIdentifier
           [] a.k \in {"VariableSized", "Optional"} ->
                 SameStaticType(a.type, b.type)
           [] a.k = "ConstantSized" ->
                 a.size = b.size /\ SameStaticType(a.type, b.type)
           [] a.k = "Dictionary" ->
                 /\ SameStaticType(a.keyType, b.keyType)
                 /\ SameStaticType(a.valueType, b.valueType)
           [] a.k = "Intersection" ->
                 /\ \A i \in 1..Len(a.types) : \E j \in 1..Len(b.types) :
                        SameStaticType(a.types[i], b.types[j])
                 /\ \A j \in 1..Len(b.types) : \E i \in 1..Len(a.types) :
                        SameStaticType(a.types[i], b.types[j])
                 /\ SameStaticType(a.legacyType, b.legacyType)
           [] a.k = "Reference" ->
                 /\ AuthorizationEqual(a.authorization, b.authorization)
                 /\ SameStaticType(a.referencedType, b.referencedType)
           [] a.k = "Capability" -> SameStaticType(a.borrowType, b.borrowType)
           [] OTHER -> a = b

\* C25: Equal is equality of type IDs for two composite types, of location
\* and qualified identifier for two interface types, the comparison of all
\* components for every other variant (for intersection types: of the sets
\* of interface types and of the legacy types), and false for types of
\* different variants.
C25_StaticTypeEquality ==
    \A p \in At("Equal") :
        log[p].result = SameStaticType(log[p].left, log[p].right)

\* The same, for the pairs that hold no intersection type: Equal is the
\* described comparison whenever neither type is or holds an intersection.
RECURSIVE HoldsIntersection(_)
HoldsIntersection(t) ==
    IF t = NoType THEN FALSE
    ELSE CASE t.k = "Intersection" -> TRUE
           [] t.k \in {"VariableSized", "ConstantSized", "Optional"} ->
                 HoldsIntersection(t.type)
           [] t.k = "Dictionary" ->
                 HoldsIntersection(t.keyType) \/ HoldsIntersection(t.valueType)
           [] t.k = "Reference" -> HoldsIntersection(t.referencedType)
           [] t.k = "Capability" -> HoldsIntersection(t.borrowType)
           [] OTHER -> FALSE

EqualityWithoutIntersections ==
    \A p \in At("Equal") :
        ~HoldsIntersection(log[p].left) /\ ~HoldsIntersection(log[p].right)
        => log[p].result = SameStaticType(log[p].left, log[p].right)

\* Two intersection types that differ in the legacy type only were compared
\* and found equal.
LegacyTypeIgnored ==
    \E p \in At("Equal") :
        /\ log[p].left.k = "Intersection" /\ log[p].right.k = "Intersection"
        /\ log[p].left.types = log[p].right.types
        /\ log[p].left.legacyType # log[p].right.legacyType
        /\ log[p].result

\* ---------------------------------------------------------------- C29
\* C29: Equal is reflexive and symmetric: a type is Equal to itself, and
\* left.Equal(right) is what right.Equal(left) is, also for intersection
\* types with a repeated interface type and for capability types of which
\* one has no borrow type.
C29_EqualReflexiveSymmetric ==
    \A p \in At("Equal") :
        /\ Equal(log[p].left, log[p].left)
        /\ log[p].result = Equal(log[p].right, log[p].left)

\* Equal is reflexive on every compared type.
EqualReflexive ==
    \A p \in At("Equal") : Equal(log[p].left, log[p].left)

\* Equal is symmetric on the pairs in which no intersection type lists an
\* interface type twice.
RECURSIVE Repeats(_)
Repeats(t) ==
    IF t = NoType THEN FALSE
    ELSE CASE t.k = "Intersection" ->
                 \E i, j \in 1..Len(t.types) : i # j /\ t.types[i] = t.types[j]
           [] t.k \in {"VariableSized", "ConstantSized", "Optional"} ->
                 Repeats(t.type)
           [] t.k = "Dictionary" -> Repeats(t.keyType) \/ Repeats(t.valueType)
           [] t.k = "Reference" -> Repeats(t.referencedType)
           [] t.k = "Capability" -> Repeats(t.borrowType)
           [] OTHER -> FALSE

EqualSymmetricWithoutRepeats ==
    \A p \in At("Equal") :
        ~Repeats(log[p].left) /\ ~Repeats(log[p].right)
        => log[p].result = Equal(log[p].right, log[p].left)

\* A capability type without a borrow type was compared with one that has a
\* borrow type.
AbsentBorrowTypeCompared ==
    \E p \in At("Equal") :
        /\ log[p].left.k = "Capability" /\ log[p].right.k = "Capability"
        /\ log[p].left.borrowType = NoType
        /\ log[p].right.borrowType # NoType
        /\ ~log[p].result

\* ---------------------------------------------------------------- C26
\* Entry f is what the migrations make of entry e0 (as it was before the
\* run): its key is the migrated form of e0's key, or that key, and its
\* value the migrated form of e0's value, or that value.
MigratedEntry(e0, f) ==
    /\ f.key.val = Chained(migrations, 1, e0.key.val)
    /\ IF e0.value.kind = "leaf"
       THEN /\ f.value.kind = "leaf"
            /\ f.value.val = Chained(migrations, 1, e0.value.val)
       ELSE /\ f.value.kind = "ref"
            /\ NotReplaced(e0.value) => f.value = e0.value

\* Every entry of dictionary d has its migrated entry in d after the pass.
NoEntryLost(d) ==
    \A e0 \in Range(Heap0[d].entries) :
        \E f \in Range(HeapNow[d].entries) : MigratedEntry(e0, f)

\* C26: after the traversal of a dictionary, for every entry present before
\* it the dictionary holds an entry with the migrated key (or the key) and
\* the migrated value (or the value), for every snapshot order of the keys
\* and also when a key migrates to a key that the dictionary already has.
C26_NoEntryLost ==
    PassDone => \A d \in Objects0("dictionary") : NoEntryLost(d)

\* The migrated form of a key of d is, or is the migrated form of, another
\* key of d.
KeysCollide(d) ==
    \E i, j \in 1..Len(Heap0[d].entries) :
        /\ i # j
        /\ Chained(migrations, 1, Heap0[d].entries[i].key.val)
           \in {Heap0[d].entries[j].key.val,
                Chained(migrations, 1, Heap0[d].entries[j].key.val)}

\* Without such a collision no entry is lost.
NoEntryLostWithoutCollision ==
    PassDone
    => \A d \in Objects0("dictionary") : ~KeysCollide(d) => NoEntryLost(d)

\* A pass that moved both entries of a dictionary to new keys.
BothEntriesRelocated ==
    /\ PassDone
    /\ \E d \in Objects0("dictionary") :
          /\ Len(Heap0[d].entries) = 2
          /\ ~KeysCollide(d)
          /\ Cardinality({p \in At("RemoveKey") : log[p].id = d}) = 2
          /\ NoEntryLost(d)

\* ---------------------------------------------------------------- C27
\* The points of the log at which a pass ended in a fatal error: the lookup
\* of an absent snapshotted key, and a Migrate call that panicked (on a
\* type of no handled variant, or on a replacement of an interface type
\* that is not an interface type).
FatalPoints ==
    AbsentLookups \cup {p \in At("Migrate") : log[p].out = MigratePanic}

\* C27: when a per-address pass ends in a fatal error, the run is over:
\* Storage.Commit is not called, no further address is requested and no
\* further pass is made; and a run that ended fatally without a commit
\* ended at such a point.
C27_FatalAbortPreventsCommit ==
    /\ \A p \in FatalPoints :
          /\ p = Len(log)
          /\ pc = "panic"
          /\ At("Commit") = {}
          /\ Cardinality(At("NextAddress")) = Len(Passes)
          /\ Passes \o iterator = iterator0
    /\ (pc = "panic" /\ At("Commit") = {}) => FatalPoints # {}

\* A run that ended fatally in its first pass while the iterator had a
\* further address to give.
C27_Witness ==
    /\ FatalPoints # {}
    /\ pc = "panic"
    /\ Len(Passes) = 1
    /\ iterator # <<>>
    /\ At("Commit") = {}

\* Runs that ended fatally at an absent key, on a type of no handled
\* variant, and on a replacement that is not an interface type, each in the
\* second pass.
C27_AbsentKeyWitness ==
    /\ AbsentLookups # {}
    /\ Len(Passes) = 2

C27_PanicWitness(val) ==
    /\ Len(Passes) = 2
    /\ \E p \in At("Migrate") : log[p].out = MigratePanic /\ log[p].val = val

C27_UnreachableVariantWitness ==
    C27_PanicWitness(TypeValue(CapabilityStaticType(NoType)))

C27_NonInterfaceWitness ==
    C27_PanicWitness(TypeValue(IntersectionStaticType(<<Interface(1)>>)))

\* ---------------------------------------------------------------- C28
\* No converter is configured.
NoConverters == TheMigration = StaticTypeMigration

\* C28: with no converter configured, the conversion of every static type
\* built from the defined variants, a capability type without borrow type
\* and an intersection type without legacy type included, returns nil or a
\* type and does not reach the panic of the unhandled variant; no Migrate
\* call panics and the run does not end in the panic.
C28_ConversionTotal ==
    NoConverters /\ PassDone
    => /\ Convert(StoredType) # PanicType
       /\ \A p \in At("Migrate") : log[p].out # MigratePanic
       /\ pc # "panic"

\* t is or holds a capability type without a borrow type.
RECURSIVE LacksBorrowType(_)
LacksBorrowType(t) ==
    IF t = NoType THEN FALSE
    ELSE CASE t.k = "Capability" ->
                 t.borrowType = NoType \/ LacksBorrowType(t.borrowType)
           [] t.k \in {"Optional", "VariableSized", "ConstantSized"} ->
                 LacksBorrowType(t.type)
           [] t.k = "Dictionary" ->
                 LacksBorrowType(t.keyType) \/ LacksBorrowType(t.valueType)
           [] t.k = "Reference" -> LacksBorrowType(t.referencedType)
           [] t.k = "Intersection" -> LacksBorrowType(t.legacyType)
           [] OTHER -> FALSE

\* With no converter configured the conversion panics on exactly the types
\* that are or hold a capability type without a borrow type.
PanicsOnAbsentBorrowTypeOnly ==
    NoConverters
    => (Convert(StoredType) = PanicType <=> LacksBorrowType(StoredType))

\* A run over the TypeValue of an optional of a capability type without a
\* borrow type ended in the panic of the first Migrate call.
NestedAbsentBorrowTypePanics ==
    /\ NoConverters
    /\ pc = "panic"
    /\ StoredValue = TypeValue(OptionalStaticType(CapabilityStaticType(NoType)))
    /\ \E p \in MigrateCalls(1) : log[p].out = MigratePanic

\* With no converter configured, the conversion of an intersection type
\* without a legacy type gave a type.
NoLegacyTypeConverted ==
    /\ NoConverters
    /\ pc = "done"
    /\ StoredType.k = "Intersection"
    /\ StoredType.legacyType = NoType
    /\ IsType(Convert(StoredType))

\* ---------------------------------------------------------------- C30
\* The i-th key of dictionary d, as stored before the run, was looked up
\* once, and was found.
LookedUp(d, i) ==
    LET lookups == {p \in At("Get") :
                       /\ log[p].id = d
                       /\ log[p].key = Heap0[d].entries[i].key.val}
    IN  /\ Cardinality(lookups) = 1
        /\ \A p \in lookups : log[p].exist

\* C30: with migrations that only return a replacement for the leaf they
\* are given, for every dictionary, every snapshot order of the keys and
\* every pattern of replaced keys, each snapshotted key is present when its
\* value is looked up: every key the dictionary had is looked up once and
\* found, no lookup finds its key absent, and the pass does not end in the
\* fatal error.
C30_AbsentKeyUnreachable ==
    /\ AbsentLookups = {}
    /\ \A p \in At("Get") : log[p].exist
    /\ pc = "panic" => At("Commit") # {}
    /\ PassDone
       => \A d \in Objects0("dictionary") :
             \A i \in 1..Len(Heap0[d].entries) : LookedUp(d, i)

\* A completed pass over a dictionary of two entries in which the key that
\* was processed first migrated onto the other snapshotted key.
C30_Witness ==
    /\ PassDone
    /\ pc = "next"
    /\ \E d \in Objects0("dictionary") :
          /\ Len(Heap0[d].entries) = 2
          /\ \E p \in At("SetKey"), q \in At("Get") :
                /\ log[p].id = d /\ log[q].id = d
                /\ p < q
                /\ log[p].key = log[q].key
                /\ \E r \in At("RemoveKey") : r < p /\ log[r].id = d
          /\ \A i \in 1..2 : LookedUp(d, i)

====
